---------------------------- MODULE Spec2Model ----------------------------
(***************************************************************************)
(* Starry Sky screensaver (JNechaevsky/starry-sky).  The repository holds  *)
(* four generations of the same program:                                   *)
(*   "gdi1"   src/stars.c 1-431          GDI, no clamping of the settings  *)
(*   "gdi2"   src/unnamed/part_000       GDI, M_CheckConfig, erase on fade *)
(*   "sdl"    src/stars.c 432-912        SDL3, static stars                *)
(*   "drift"  src/stars.c 914-1570       SDL3, drifting stars, 35 Hz tics  *)
(* The variable `variant' says which of them a behaviour is a run of.      *)
(*                                                                         *)
(* Text is modelled as sequences of ASCII codes, a file as a sequence of   *)
(* lines (without their newline).  The drift variant keeps x and speed as  *)
(* floats; here speed is kept in 1/100 and x in 1/600 of a pixel, which    *)
(* makes x += STAR_SPEED * speed / 6 exact (float rounding is left out).   *)
(***************************************************************************)
EXTENDS Integers, Sequences, FiniteSets, TLC

VARIABLES
  variant,        \* which program runs
  pc,             \* position of main()/WinMain()
  file,           \* stars.ini: [exists, lines]
  cfg,            \* the configuration globals (FULLSCREEN, NUM_STARS, ...)
  had_cfg,        \* main: had_cfg (SDL variants)
  stars,          \* the star array
  m_rand_seed,    \* RNG state, a 32-bit word as [hi, lo] 16-bit halves
  render_w,       \* render_w / window_width
  render_h,       \* render_h / window_height
  running,        \* main: running
  is_fullscreen,  \* main: is_fullscreen (gdi1: the global is_fullscreen)
  screen,         \* window/cursor/screensaver state set by the fullscreen toggle
  msg,            \* msg_text / msg_timeout / msg_a (drift)
  clock,          \* SDL_GetTicks(), gametic, last_tic_time (drift)
  exit_code,      \* the status main()/WinMain() returned, -1 while it runs
  arg,            \* what the last configuration operation was applied to
  oob,            \* TRUE once a star index beyond the array was accessed (gdi1)
  born,           \* history: brightness each star got when it was last (re)spawned
  age,            \* history: simulation steps each star lived since then
  frames,         \* history: loop iterations completed
  nev,            \* history: events handled
  last            \* history: name of the last operation

vars == <<variant, pc, file, cfg, had_cfg, stars, m_rand_seed, render_w, render_h,
          running, is_fullscreen, screen, msg, clock, exit_code, oob, arg, born, age, frames, nev, last>>

---------------------------------------------------------------------------
(* Program constants *)

MAXSTARS == 500
GDI1_STARS == 300
TICRATE == 35
LINE_SDL == 256
LINE_GDI == 128

(* Bounds of the model *)

MaxFrames == 2
MaxEvents == 1

Variants == {"gdi1", "gdi2", "sdl", "drift"}
SDLVariants == {"sdl", "drift"}
GDIVariants == {"gdi1", "gdi2"}

---------------------------------------------------------------------------
(* Text helpers *)

\* the characters trim() strips: ' ', '\t', '\r', '\n'
IsBlank(c) == c \in {32, 9, 13, 10}

\* isspace() of the C locale, as strtol and sscanf skip it
IsSpace(c) == c \in {32, 9, 10, 11, 12, 13}

IsDigit(c) == c >= 48 /\ c <= 57

RECURSIVE LTrim(_)
LTrim(s) == IF s # <<>> /\ IsBlank(Head(s)) THEN LTrim(Tail(s)) ELSE s

RECURSIVE RTrim(_)
RTrim(s) == IF s # <<>> /\ IsBlank(s[Len(s)]) THEN RTrim(SubSeq(s, 1, Len(s) - 1)) ELSE s

trim(s) == RTrim(LTrim(s))

\* ieq: one character folded to lower case
Fold(c) == IF c >= 65 /\ c <= 90 THEN c + 32 ELSE c

RECURSIVE ieq(_, _)
ieq(a, b) ==
  IF a # <<>> /\ b # <<>>
    THEN IF Fold(Head(a)) # Fold(Head(b)) THEN FALSE ELSE ieq(Tail(a), Tail(b))
    ELSE a = <<>> /\ b = <<>>

RECURSIVE SkipSpace(_)
SkipSpace(s) == IF s # <<>> /\ IsSpace(Head(s)) THEN SkipSpace(Tail(s)) ELSE s

\* the value of the leading decimal digits of s, added to acc
RECURSIVE Digits(_, _)
Digits(s, acc) ==
  IF s # <<>> /\ IsDigit(Head(s)) THEN Digits(Tail(s), acc * 10 + (Head(s) - 48)) ELSE acc

\* strtol(val, NULL, 10): blanks, an optional sign, digits; 0 when there is no digit.
\* (Values beyond the range of long are not modelled.)
strtol(val) ==
  LET s == SkipSpace(val)
      neg == s # <<>> /\ Head(s) = 45
      t == IF s # <<>> /\ Head(s) \in {43, 45} THEN Tail(s) ELSE s
  IN IF neg THEN 0 - Digits(t, 0) ELSE Digits(t, 0)

\* printf("%d"): the decimal digits of n >= 0
RECURSIVE UDec(_)
UDec(n) == IF n < 10 THEN <<48 + n>> ELSE UDec(n \div 10) \o <<48 + (n % 10)>>

\* "%d" losing the minus sign
FormatInt_NoSign(n) == IF n < 0 THEN UDec(0 - n) ELSE UDec(n)

FormatInt(n) == IF n < 0 THEN <<45>> \o UDec(0 - n) ELSE UDec(n)

\* fgets(line, size, f) hands a line out in pieces of at most size-1 characters
RECURSIVE Fgets(_, _)
Fgets(l, size) ==
  IF Len(l) < size THEN <<l>>
  ELSE <<SubSeq(l, 1, size - 1)>> \o Fgets(SubSeq(l, size, Len(l)), size)

RECURSIVE FgetsAll(_, _)
FgetsAll(lines, size) ==
  IF lines = <<>> THEN <<>> ELSE Fgets(Head(lines), size) \o FgetsAll(Tail(lines), size)

---------------------------------------------------------------------------
(* Configuration.  cfg is a record of the globals; the GDI programs call   *)
(* DELAY_MS "DELAY" and STAR_SIZE "BIG_STARS", gdi1 keeps FULLSCREEN in    *)
(* is_fullscreen only, and STAR_SPEED / SHOW_FPS exist in drift only.      *)

Defaults(v) ==
  CASE v = "gdi1" -> [FULLSCREEN |-> 0, NUM_STARS |-> 100, DELAY_MS |-> 100, BRIGHTNESS_STEP |-> 15,
                      COLORED_STARS |-> 1, STAR_SIZE |-> 1, STAR_SPEED |-> 0, SHOW_FPS |-> 0]
    [] v = "gdi2" -> [FULLSCREEN |-> 0, NUM_STARS |-> 100, DELAY_MS |-> 100, BRIGHTNESS_STEP |-> 15,
                      COLORED_STARS |-> 1, STAR_SIZE |-> 1, STAR_SPEED |-> 0, SHOW_FPS |-> 0]
    [] v = "sdl"  -> [FULLSCREEN |-> 0, NUM_STARS |-> 100, DELAY_MS |-> 15, BRIGHTNESS_STEP |-> 1,
                      COLORED_STARS |-> 1, STAR_SIZE |-> 3, STAR_SPEED |-> 0, SHOW_FPS |-> 0]
    [] OTHER      -> [FULLSCREEN |-> 1, NUM_STARS |-> 100, DELAY_MS |-> 15, BRIGHTNESS_STEP |-> 1,
                      COLORED_STARS |-> 1, STAR_SIZE |-> 3, STAR_SPEED |-> -3, SHOW_FPS |-> 0]

\* a clamp that forgets the upper end
BETWEEN_NoUpper(l, u, x) == IF x < l THEN l ELSE x

BETWEEN(l, u, x) == IF x < l THEN l ELSE IF x > u THEN u ELSE x

\* "fullscreen"
K_fullscreen == <<102,117,108,108,115,99,114,101,101,110>>
\* "num_stars"
K_num_stars == <<110,117,109,95,115,116,97,114,115>>
\* "delay_ms"
K_delay_ms == <<100,101,108,97,121,95,109,115>>
\* "brightness_step"
K_brightness_step == <<98,114,105,103,104,116,110,101,115,115,95,115,116,101,112>>
\* "colored_stars"
K_colored_stars == <<99,111,108,111,114,101,100,95,115,116,97,114,115>>
\* "star_size"
K_star_size == <<115,116,97,114,95,115,105,122,101>>
\* "star_speed"
K_star_speed == <<115,116,97,114,95,115,112,101,101,100>>
\* "show_fps"
K_show_fps == <<115,104,111,119,95,102,112,115>>

ini_apply_kv(v, c, key, val) ==
  IF ieq(key, K_fullscreen) THEN [c EXCEPT !.FULLSCREEN = strtol(val)]
  ELSE IF ieq(key, K_num_stars) THEN [c EXCEPT !.NUM_STARS = strtol(val)]
  ELSE IF ieq(key, K_delay_ms) THEN [c EXCEPT !.DELAY_MS = strtol(val)]
  ELSE IF ieq(key, K_brightness_step) THEN [c EXCEPT !.BRIGHTNESS_STEP = strtol(val)]
  ELSE IF ieq(key, K_colored_stars) THEN [c EXCEPT !.COLORED_STARS = strtol(val)]
  ELSE IF ieq(key, K_star_size) THEN [c EXCEPT !.STAR_SIZE = strtol(val)]
  ELSE IF v = "drift" /\ ieq(key, K_star_speed) THEN [c EXCEPT !.STAR_SPEED = strtol(val)]
  ELSE IF v = "drift" /\ ieq(key, K_show_fps) THEN [c EXCEPT !.SHOW_FPS = strtol(val)]
  ELSE c

\* index of the first ' ' or '\t' of s at or after i, Len(s)+1 when there is none
RECURSIVE FindSep(_, _)
FindSep(s, i) ==
  IF i > Len(s) THEN i ELSE IF s[i] \in {32, 9} THEN i ELSE FindSep(s, i + 1)

\* the body of CFG_Load's loop for one piece read by fgets
CFG_LoadLine(v, c, raw) ==
  LET line == trim(raw) IN
  IF line = <<>> \/ Head(line) \in {35, 59, 91} THEN c      \* empty, '#', ';', '['
  ELSE LET p == FindSep(line, 1) IN
       IF p > Len(line) THEN c
       ELSE LET key == trim(SubSeq(line, 1, p - 1))
                val == trim(SubSeq(line, p + 1, Len(line)))
            IN IF key # <<>> THEN ini_apply_kv(v, c, key, val) ELSE c

RECURSIVE LoadLines(_, _, _)
LoadLines(v, c, pieces) ==
  IF pieces = <<>> THEN c ELSE LoadLines(v, CFG_LoadLine(v, c, Head(pieces)), Tail(pieces))

\* CFG_Load on an existing file (the caller handles fopen failing)
CFG_Load(v, c, lines) == LoadLines(v, c, FgetsAll(lines, LINE_SDL))

CFG_Check(v, c) ==
  LET c6 == [c EXCEPT !.FULLSCREEN      = BETWEEN(0, 1, c.FULLSCREEN),
                      !.NUM_STARS       = BETWEEN(0, MAXSTARS, c.NUM_STARS),
                      !.DELAY_MS        = BETWEEN(0, 1000, c.DELAY_MS),
                      !.BRIGHTNESS_STEP = BETWEEN(1, 255, c.BRIGHTNESS_STEP),
                      !.COLORED_STARS   = BETWEEN(0, 1, c.COLORED_STARS),
                      !.STAR_SIZE       = BETWEEN(1, 16, c.STAR_SIZE)]
  IN IF v = "drift"
       THEN [c6 EXCEPT !.STAR_SPEED = BETWEEN(-10, 10, c.STAR_SPEED),
                       !.SHOW_FPS   = BETWEEN(0, 1, c.SHOW_FPS)]
       ELSE c6

\* M_CheckConfig (gdi2)
M_CheckConfig(c) ==
  [c EXCEPT !.FULLSCREEN      = BETWEEN(0, 1, c.FULLSCREEN),
            !.NUM_STARS       = BETWEEN(0, MAXSTARS, c.NUM_STARS),
            !.DELAY_MS        = BETWEEN(0, 1000, c.DELAY_MS),
            !.BRIGHTNESS_STEP = BETWEEN(1, 255, c.BRIGHTNESS_STEP),
            !.COLORED_STARS   = BETWEEN(0, 1, c.COLORED_STARS),
            !.STAR_SIZE       = BETWEEN(0, 4, c.STAR_SIZE)]

\* "# Run in a full screen mode. (0 = no, 1 = yes)"
C_fullscreen ==
  <<35,32,82,117,110,32,105,110,32,97,32,102,117,108,108,32,115,99,114,101,101,110,32,109,
    111,100,101,46,32,40,48,32,61,32,110,111,44,32,49,32,61,32,121,101,115,41>>
\* "# Number of stars displayed on the screen. (0...500)"
C_num_stars ==
  <<35,32,78,117,109,98,101,114,32,111,102,32,115,116,97,114,115,32,100,105,115,112,108,
    97,121,101,100,32,111,110,32,116,104,101,32,115,99,114,101,101,110,46,32,40,48,46,46,
    46,53,48,48,41>>
\* "# Delay between frames in milliseconds. Affects animation speed. (0...1000)"
C_delay_ms ==
  <<35,32,68,101,108,97,121,32,98,101,116,119,101,101,110,32,102,114,97,109,101,115,32,
    105,110,32,109,105,108,108,105,115,101,99,111,110,100,115,46,32,65,102,102,101,99,116,
    115,32,97,110,105,109,97,116,105,111,110,32,115,112,101,101,100,46,32,40,48,46,46,46,
    49,48,48,48,41>>
\* "# Step by which brightness decreases. Affects fading smoothness. (1...255)"
C_brightness_step ==
  <<35,32,83,116,101,112,32,98,121,32,119,104,105,99,104,32,98,114,105,103,104,116,110,
    101,115,115,32,100,101,99,114,101,97,115,101,115,46,32,65,102,102,101,99,116,115,32,
    102,97,100,105,110,103,32,115,109,111,111,116,104,110,101,115,115,46,32,40,49,46,46,
    46,50,53,53,41>>
\* "# Use colored stars. (0 = grayscale, 1 = colored)"
C_colored_stars ==
  <<35,32,85,115,101,32,99,111,108,111,114,101,100,32,115,116,97,114,115,46,32,40,48,32,
    61,32,103,114,97,121,115,99,97,108,101,44,32,49,32,61,32,99,111,108,111,114,101,100,
    41>>
\* "# Define star size. (1...16)"
C_star_size ==
  <<35,32,68,101,102,105,110,101,32,115,116,97,114,32,115,105,122,101,46,32,40,49,46,46,
    46,49,54,41>>
\* "# Movement speed and direction (-10...0...10)."
C_star_speed1 ==
  <<35,32,77,111,118,101,109,101,110,116,32,115,112,101,101,100,32,97,110,100,32,100,105,
    114,101,99,116,105,111,110,32,40,45,49,48,46,46,46,48,46,46,46,49,48,41,46>>
\* "# Negative = moving left, zero = static, positive = moving right."
C_star_speed2 ==
  <<35,32,78,101,103,97,116,105,118,101,32,61,32,109,111,118,105,110,103,32,108,101,102,
    116,44,32,122,101,114,111,32,61,32,115,116,97,116,105,99,44,32,112,111,115,105,116,
    105,118,101,32,61,32,109,111,118,105,110,103,32,114,105,103,104,116,46>>
\* "# Show FPS counter (0 = no, 1 = yes)."
C_show_fps ==
  <<35,32,83,104,111,119,32,70,80,83,32,99,111,117,110,116,101,114,32,40,48,32,61,32,110,
    111,44,32,49,32,61,32,121,101,115,41,46>>

\* one "key %d\n" line of CFG_Save
KV(key, n) == key \o <<32>> \o FormatInt(n)

\* the lines CFG_Save writes (fopen for writing is taken to succeed)
CFG_Save(v, c) ==
  LET six == << C_fullscreen, KV(K_fullscreen, c.FULLSCREEN),
                <<>>, C_num_stars, KV(K_num_stars, c.NUM_STARS),
                <<>>, C_delay_ms, KV(K_delay_ms, c.DELAY_MS),
                <<>>, C_brightness_step, KV(K_brightness_step, c.BRIGHTNESS_STEP),
                <<>>, C_colored_stars, KV(K_colored_stars, c.COLORED_STARS),
                <<>>, C_star_size, KV(K_star_size, c.STAR_SIZE) >>
  IN IF v = "drift"
       THEN six \o << <<>>, C_star_speed1, C_star_speed2, KV(K_star_speed, c.STAR_SPEED),
                      <<>>, C_show_fps, KV(K_show_fps, c.SHOW_FPS) >>
       ELSE six

---------------------------------------------------------------------------
(* Configuration of the GDI programs *)

\* "FULLSCREEN"
G_FULLSCREEN == <<70,85,76,76,83,67,82,69,69,78>>
\* "NUM_STARS"
G_NUM_STARS == <<78,85,77,95,83,84,65,82,83>>
\* "DELAY"
G_DELAY == <<68,69,76,65,89>>
\* "BRIGHTNESS_STEP"
G_BRIGHTNESS_STEP == <<66,82,73,71,72,84,78,69,83,83,95,83,84,69,80>>
\* "COLORED_STARS"
G_COLORED_STARS == <<67,79,76,79,82,69,68,95,83,84,65,82,83>>
\* "BIG_STARS"
G_BIG_STARS == <<66,73,71,95,83,84,65,82,83>>

\* does the literal lit match s from its first character? "yes", "no" (a character
\* differs) or "eof" (s ends inside the literal)
RECURSIVE MatchLit(_, _)
MatchLit(s, lit) ==
  IF lit = <<>> THEN "yes"
  ELSE IF s = <<>> THEN "eof"
  ELSE IF Head(s) # Head(lit) THEN "no"
  ELSE MatchLit(Tail(s), Tail(lit))

\* sscanf(line, "<lit> %d", &x): [ret, val]; ret is 1 (x := val), 0 (matching
\* failure) or -1 (EOF: the input ended before the conversion)
sscanf(line, lit) ==
  LET m == MatchLit(line, lit) IN
  IF m = "no" THEN [ret |-> 0, val |-> 0]
  ELSE IF m = "eof" THEN [ret |-> -1, val |-> 0]
  ELSE LET s == SkipSpace(SubSeq(line, Len(lit) + 1, Len(line)))
           t == IF s # <<>> /\ Head(s) \in {43, 45} THEN Tail(s) ELSE s
       IN IF s = <<>> THEN [ret |-> -1, val |-> 0]
          ELSE IF t = <<>> \/ ~IsDigit(Head(t)) THEN [ret |-> 0, val |-> 0]
          ELSE [ret |-> 1, val |-> IF Head(s) = 45 THEN 0 - Digits(t, 0) ELSE Digits(t, 0)]

\* the chain of "if (sscanf(...)) continue;" of one line, over the keys ks
RECURSIVE ScanChain(_, _, _)
ScanChain(c, line, ks) ==
  IF ks = <<>> THEN c
  ELSE LET r == sscanf(line, Head(ks).lit) IN
       IF r.ret = 1 THEN [c EXCEPT ![Head(ks).field] = r.val]
       ELSE IF r.ret # 0 THEN c
       ELSE ScanChain(c, line, Tail(ks))

GdiKeys(v) ==
  LET five == << [lit |-> G_NUM_STARS, field |-> "NUM_STARS"],
                 [lit |-> G_DELAY, field |-> "DELAY_MS"],
                 [lit |-> G_BRIGHTNESS_STEP, field |-> "BRIGHTNESS_STEP"],
                 [lit |-> G_COLORED_STARS, field |-> "COLORED_STARS"],
                 [lit |-> G_BIG_STARS, field |-> "STAR_SIZE"] >>
  IN IF v = "gdi2" THEN << [lit |-> G_FULLSCREEN, field |-> "FULLSCREEN"] >> \o five ELSE five

\* the body of the loop of load_settings_from_file / M_LoadConfig for one piece
\* (the piece is cut at its newline by the caller's line split)
GdiLoadLine(v, c, line) ==
  IF line = <<>> \/ Head(line) = 35 THEN c ELSE ScanChain(c, line, GdiKeys(v))

RECURSIVE GdiLoadLines(_, _, _)
GdiLoadLines(v, c, pieces) ==
  IF pieces = <<>> THEN c ELSE GdiLoadLines(v, GdiLoadLine(v, c, Head(pieces)), Tail(pieces))

\* load_settings_from_file / M_LoadConfig on an existing file
M_LoadConfig(v, c, lines) == GdiLoadLines(v, c, FgetsAll(lines, LINE_GDI))

\* "# Number of stars displayed on the screen"
D1_c1 ==
  <<35,32,78,117,109,98,101,114,32,111,102,32,115,116,97,114,115,32,100,105,115,112,108,
    97,121,101,100,32,111,110,32,116,104,101,32,115,99,114,101,101,110>>
\* "NUM_STARS 300"
D1_l1 == <<78,85,77,95,83,84,65,82,83,32,51,48,48>>
\* "# Delay between frames in milliseconds (affects animation speed)"
D1_c2 ==
  <<35,32,68,101,108,97,121,32,98,101,116,119,101,101,110,32,102,114,97,109,101,115,32,
    105,110,32,109,105,108,108,105,115,101,99,111,110,100,115,32,40,97,102,102,101,99,116,
    115,32,97,110,105,109,97,116,105,111,110,32,115,112,101,101,100,41>>
\* "DELAY 50"
D1_l2 == <<68,69,76,65,89,32,53,48>>
\* "# Step by which brightness decreases (affects fading smoothness)"
D1_c3 ==
  <<35,32,83,116,101,112,32,98,121,32,119,104,105,99,104,32,98,114,105,103,104,116,110,
    101,115,115,32,100,101,99,114,101,97,115,101,115,32,40,97,102,102,101,99,116,115,32,
    102,97,100,105,110,103,32,115,109,111,111,116,104,110,101,115,115,41>>
\* "BRIGHTNESS_STEP 15"
D1_l3 == <<66,82,73,71,72,84,78,69,83,83,95,83,84,69,80,32,49,53>>
\* "# Use colored stars (1 = yes, 0 = grayscale)"
D1_c4 ==
  <<35,32,85,115,101,32,99,111,108,111,114,101,100,32,115,116,97,114,115,32,40,49,32,61,
    32,121,101,115,44,32,48,32,61,32,103,114,97,121,115,99,97,108,101,41>>
\* "COLORED_STARS 1"
D1_l4 == <<67,79,76,79,82,69,68,95,83,84,65,82,83,32,49>>
\* "# Draw large stars as small squares (1 = yes, 0 = single pixel)"
D1_c5 ==
  <<35,32,68,114,97,119,32,108,97,114,103,101,32,115,116,97,114,115,32,97,115,32,115,109,
    97,108,108,32,115,113,117,97,114,101,115,32,40,49,32,61,32,121,101,115,44,32,48,32,61,
    32,115,105,110,103,108,101,32,112,105,120,101,108,41>>
\* "BIG_STARS 1"
D1_l5 == <<66,73,71,95,83,84,65,82,83,32,49>>
\* "# Run in full screen mode. (1 = yes, 0 = no)"
D2_c0 ==
  <<35,32,82,117,110,32,105,110,32,102,117,108,108,32,115,99,114,101,101,110,32,109,111,
    100,101,46,32,40,49,32,61,32,121,101,115,44,32,48,32,61,32,110,111,41>>
\* "FULLSCREEN 0"
D2_l0 == <<70,85,76,76,83,67,82,69,69,78,32,48>>
\* "# Number of stars displayed on the screen. (0...500)"
D2_c1 ==
  <<35,32,78,117,109,98,101,114,32,111,102,32,115,116,97,114,115,32,100,105,115,112,108,
    97,121,101,100,32,111,110,32,116,104,101,32,115,99,114,101,101,110,46,32,40,48,46,46,
    46,53,48,48,41>>
\* "NUM_STARS 100"
D2_l1 == <<78,85,77,95,83,84,65,82,83,32,49,48,48>>
\* "# Delay between frames in milliseconds. Affects animation speed. (0...1000)"
D2_c2 ==
  <<35,32,68,101,108,97,121,32,98,101,116,119,101,101,110,32,102,114,97,109,101,115,32,
    105,110,32,109,105,108,108,105,115,101,99,111,110,100,115,46,32,65,102,102,101,99,116,
    115,32,97,110,105,109,97,116,105,111,110,32,115,112,101,101,100,46,32,40,48,46,46,46,
    49,48,48,48,41>>
\* "DELAY 100"
D2_l2 == <<68,69,76,65,89,32,49,48,48>>
\* "# Step by which brightness decreases. Affects fading smoothness. (1...255)"
D2_c3 ==
  <<35,32,83,116,101,112,32,98,121,32,119,104,105,99,104,32,98,114,105,103,104,116,110,
    101,115,115,32,100,101,99,114,101,97,115,101,115,46,32,65,102,102,101,99,116,115,32,
    102,97,100,105,110,103,32,115,109,111,111,116,104,110,101,115,115,46,32,40,49,46,46,
    46,50,53,53,41>>
\* "BRIGHTNESS_STEP 15"
D2_l3 == <<66,82,73,71,72,84,78,69,83,83,95,83,84,69,80,32,49,53>>
\* "# Use colored stars. (1 = yes, 0 = grayscale)"
D2_c4 ==
  <<35,32,85,115,101,32,99,111,108,111,114,101,100,32,115,116,97,114,115,46,32,40,49,32,
    61,32,121,101,115,44,32,48,32,61,32,103,114,97,121,115,99,97,108,101,41>>
\* "COLORED_STARS 1"
D2_l4 == <<67,79,76,79,82,69,68,95,83,84,65,82,83,32,49>>
\* "# Define star size. (0 = 1x1, 1 = 2x2, 2 = 4x4, etc., up to 4)"
D2_c5 ==
  <<35,32,68,101,102,105,110,101,32,115,116,97,114,32,115,105,122,101,46,32,40,48,32,61,
    32,49,120,49,44,32,49,32,61,32,50,120,50,44,32,50,32,61,32,52,120,52,44,32,101,116,99,
    46,44,32,117,112,32,116,111,32,52,41>>
\* "BIG_STARS 1"
D2_l5 == <<66,73,71,95,83,84,65,82,83,32,49>>

\* create_default_settings_file (gdi1) / M_CreateConfig (gdi2): the lines written
M_CreateConfig(v) ==
  IF v = "gdi1"
    THEN << D1_c1, D1_l1, <<>>, D1_c2, D1_l2, <<>>, D1_c3, D1_l3, <<>>, D1_c4, D1_l4, <<>>,
            D1_c5, D1_l5 >>
    ELSE << D2_c0, D2_l0, <<>>, D2_c1, D2_l1, <<>>, D2_c2, D2_l2, <<>>, D2_c3, D2_l3, <<>>,
            D2_c4, D2_l4, <<>>, D2_c5, D2_l5 >>

---------------------------------------------------------------------------
(* Random numbers *)

\* seed * 214013 + 2531011 modulo 2^32, on the 16-bit halves of the seed
\* (214013 = 3 * 2^16 + 17405, 2531011 = 38 * 2^16 + 40643)
Lcg(s) ==
  LET t == s.lo * 17405 + 40643
  IN [hi |-> (s.hi * 17405 + s.lo * 3 + (t \div 65536) + 38) % 65536, lo |-> t % 65536]

\* M_RealRandom: the new seed >> 17
M_RealRandom(s) == LET n == Lcg(s) IN [seed |-> n, val |-> n.hi \div 2]

\* rand() of the Microsoft C runtime the GDI programs link: the same generator,
\* (seed >> 16) & 0x7fff
rand(s) == LET n == Lcg(s) IN [seed |-> n, val |-> n.hi % 32768]

Random(v, s) == IF v \in GDIVariants THEN rand(s) ELSE M_RealRandom(s)

---------------------------------------------------------------------------
(* Stars *)

\* sub-pixel units of x: 600 in the drift variant (float x), 1 elsewhere (int x)
XUnit(v) == IF v = "drift" THEN 600 ELSE 1

\* a star of the zero-initialised static array
ZeroStar ==
  [x |-> 0, y |-> 0, brightness |-> 0, target_brightness |-> 0, speed |-> 0,
   r |-> 0, g |-> 0, b |-> 0]

\* number of stars the array of the variant holds
Capacity(v) == IF v = "gdi1" THEN GDI1_STARS ELSE MAXSTARS

\* The static array is kept as its leading part, a function on 0 .. n-1 with n the
\* largest number of stars a loop has gone over; the stars behind it are still
\* as the loader zeroed them.
StarAt(arr, i) == IF i \in DOMAIN arr THEN arr[i] ELSE ZeroStar

\* the same array with its first n stars written out
Extend(arr, n) ==
  IF \A i \in 0 .. n - 1 : i \in DOMAIN arr THEN arr
  ELSE [i \in (DOMAIN arr) \cup (0 .. n - 1) |-> StarAt(arr, i)]

\* the number of stars a loop "for (i = 0; i < count; i++)" stays in the array for
LoopEnd(v, count) == IF count > Capacity(v) THEN Capacity(v) ELSE count

\* R_RandomizeStarColor; the GDI programs draw RGB(rand() % 256, ...) whatever
\* COLORED_STARS is
R_RandomizeStarColor(v, c, s) ==
  IF v \in GDIVariants \/ c.COLORED_STARS # 0
    THEN LET r1 == Random(v, s)
             r2 == Random(v, r1.seed)
             r3 == Random(v, r2.seed)
         IN [seed |-> r3.seed, r |-> r1.val % 256, g |-> r2.val % 256, b |-> r3.val % 256]
    ELSE LET r1 == Random(v, s)
         IN [seed |-> r1.seed, r |-> r1.val % 256, g |-> r1.val % 256, b |-> r1.val % 256]

\* an initializer that takes x from 0 .. maxx instead of 0 .. maxx-1
InitStar_OffByOne(v, c, s, star, maxx, maxy) ==
  LET rx == Random(v, s)
      ry == Random(v, rx.seed)
      rs == IF v = "drift" THEN Random(v, ry.seed) ELSE [seed |-> ry.seed, val |-> 0]
      rb == Random(v, rs.seed)
      col == R_RandomizeStarColor(v, c, rb.seed)
  IN [seed |-> col.seed,
      star |-> [x |-> (rx.val % (maxx + 1)) * XUnit(v),
                y |-> ry.val % maxy,
                speed |-> IF v = "drift" THEN 10 + 2 * (rs.val % 100) ELSE star.speed,
                brightness |-> rb.val % 256,
                target_brightness |-> 0,
                r |-> col.r, g |-> col.g, b |-> col.b]]

\* the body of the loop of R_InitStars / R_InitializeStars / initialize_stars
InitStar(v, c, s, star, maxx, maxy) ==
  LET rx == Random(v, s)
      ry == Random(v, rx.seed)
      rs == IF v = "drift" THEN Random(v, ry.seed) ELSE [seed |-> ry.seed, val |-> 0]
      rb == Random(v, rs.seed)
      col == R_RandomizeStarColor(v, c, rb.seed)
  IN [seed |-> col.seed,
      star |-> [x |-> (rx.val % maxx) * XUnit(v),
                y |-> ry.val % maxy,
                speed |-> IF v = "drift" THEN 10 + 2 * (rs.val % 100) ELSE star.speed,
                brightness |-> rb.val % 256,
                target_brightness |-> 0,
                r |-> col.r, g |-> col.g, b |-> col.b]]

\* the loop "for (i = lo; i < hi; i++)" of the initialisers over [seed, arr]; the
\* range is run as its two halves in turn, the second starting from the state the
\* first leaves, which keeps the evaluation shallow for hundreds of stars
RECURSIVE InitLoop(_, _, _, _, _, _, _)
InitLoop(v, c, st, lo, hi, maxx, maxy) ==
  IF lo >= hi THEN st
  ELSE IF hi = lo + 1
    THEN LET one == InitStar(v, c, st.seed, st.arr[lo], maxx, maxy)
         IN [seed |-> one.seed, arr |-> [st.arr EXCEPT ![lo] = one.star]]
    ELSE LET mid == (lo + hi) \div 2
             left == InitLoop(v, c, st, lo, mid, maxx, maxy)
         IN IF left.seed.hi < 0 THEN left    \* never; makes TLC evaluate left first
            ELSE InitLoop(v, c, left, mid, hi, maxx, maxy)

\* R_InitStars(count, maxx, maxy) on the array arr with RNG state s: [seed, arr].
\* The loop stops at the end of the array; the caller records an overrun.
R_InitStars(v, c, s, arr, count, maxx, maxy) ==
  IF maxx <= 0 \/ maxy <= 0 THEN [seed |-> s, arr |-> arr]
  ELSE InitLoop(v, c, [seed |-> s, arr |-> Extend(arr, LoopEnd(v, count))], 0,
                LoopEnd(v, count), maxx, maxy)

\* a fade that does not stop at the target brightness
R_UpdateStarBrightness_Unclamped(c, star) ==
  IF star.brightness > star.target_brightness
    THEN [star EXCEPT !.brightness = star.brightness - c.BRIGHTNESS_STEP]
    ELSE star

\* R_UpdateStarBrightness / update_brightness
R_UpdateStarBrightness(c, star) ==
  IF star.brightness > star.target_brightness
    THEN LET b == star.brightness - c.BRIGHTNESS_STEP
         IN [star EXCEPT !.brightness = IF b < star.target_brightness
                                          THEN star.target_brightness ELSE b]
    ELSE star

\* a step that respawns a star only on the step after the one that faded it out
UpdateStarStatic_Late(v, c, s, star0, maxx, maxy) ==
  IF star0.brightness = 0
    THEN LET rx == Random(v, s)
             ry == Random(v, rx.seed)
             col == R_RandomizeStarColor(v, c, ry.seed)
         IN [seed |-> col.seed, respawn |-> TRUE,
             star |-> [star0 EXCEPT !.x = rx.val % maxx, !.y = ry.val % maxy,
                                    !.brightness = 255, !.target_brightness = 0,
                                    !.r = col.r, !.g = col.g, !.b = col.b]]
    ELSE [seed |-> s, respawn |-> FALSE, star |-> R_UpdateStarBrightness(c, star0)]

\* the body of the loop of R_UpdateStars of the static programs: [seed, star, respawn]
UpdateStarStatic(v, c, s, star0, maxx, maxy) ==
  LET star == R_UpdateStarBrightness(c, star0) IN
  IF star.brightness = 0
    THEN LET rx == Random(v, s)
             ry == Random(v, rx.seed)
             col == R_RandomizeStarColor(v, c, ry.seed)
         IN [seed |-> col.seed, respawn |-> TRUE,
             star |-> [star EXCEPT !.x = rx.val % maxx, !.y = ry.val % maxy,
                                   !.brightness = 255, !.target_brightness = 0,
                                   !.r = col.r, !.g = col.g, !.b = col.b]]
    ELSE [seed |-> s, respawn |-> FALSE, star |-> star]

\* a step that gives every respawned star a random x, also one that left the bounds
UpdateStarDrift_NoWrap(v, c, s, star0, maxx, maxy) ==
  LET x1 == star0.x + c.STAR_SPEED * star0.speed
      b0 == star0.brightness
      b1 == IF b0 > 0 THEN (IF b0 - c.BRIGHTNESS_STEP < 0 THEN 0 ELSE b0 - c.BRIGHTNESS_STEP)
            ELSE b0
      out_right == c.STAR_SPEED > 0 /\ x1 > maxx * XUnit(v)
      out_left == c.STAR_SPEED < 0 /\ x1 < 0
  IN IF out_right \/ out_left \/ b1 <= 0
       THEN LET rx == Random(v, s)
                ry == Random(v, rx.seed)
                rs == Random(v, ry.seed)
                rb == Random(v, rs.seed)
                col == R_RandomizeStarColor(v, c, rb.seed)
            IN [seed |-> col.seed, respawn |-> TRUE,
                star |-> [star0 EXCEPT
                            !.x = (rx.val % maxx) * XUnit(v),
                            !.y = ry.val % maxy,
                            !.speed = 50 + (rs.val % 100),
                            !.brightness = 128 + (rb.val % 128),
                            !.r = col.r, !.g = col.g, !.b = col.b]]
       ELSE [seed |-> s, respawn |-> FALSE,
             star |-> [star0 EXCEPT !.x = x1, !.brightness = b1]]

\* the body of the loop of R_UpdateStars of the drift variant
UpdateStarDrift(v, c, s, star0, maxx, maxy) ==
  LET x1 == star0.x + c.STAR_SPEED * star0.speed
      b0 == star0.brightness
      b1 == IF b0 > 0 THEN (IF b0 - c.BRIGHTNESS_STEP < 0 THEN 0 ELSE b0 - c.BRIGHTNESS_STEP)
            ELSE b0
      out_right == c.STAR_SPEED > 0 /\ x1 > maxx * XUnit(v)
      out_left == c.STAR_SPEED < 0 /\ x1 < 0
  IN IF out_right \/ out_left \/ b1 <= 0
       THEN LET rx == IF out_right \/ out_left THEN [seed |-> s, val |-> 0] ELSE Random(v, s)
                ry == Random(v, rx.seed)
                rs == Random(v, ry.seed)
                rb == Random(v, rs.seed)
                col == R_RandomizeStarColor(v, c, rb.seed)
            IN [seed |-> col.seed, respawn |-> TRUE,
                star |-> [star0 EXCEPT
                            !.x = IF out_right THEN 0
                                  ELSE IF out_left THEN maxx * XUnit(v)
                                  ELSE (rx.val % maxx) * XUnit(v),
                            !.y = ry.val % maxy,
                            !.speed = 50 + (rs.val % 100),
                            !.brightness = 128 + (rb.val % 128),
                            !.r = col.r, !.g = col.g, !.b = col.b]]
       ELSE [seed |-> s, respawn |-> FALSE,
             star |-> [star0 EXCEPT !.x = x1, !.brightness = b1]]

\* a step that fades the stars and never respawns one
UpdateStar_FadeOnly(v, c, s, star, maxx, maxy) ==
  [seed |-> s, respawn |-> FALSE, star |-> R_UpdateStarBrightness(c, star)]

\* the body of the loop of R_UpdateStars
UpdateStar(v, c, s, star, maxx, maxy) ==
  IF v = "drift" THEN UpdateStarDrift(v, c, s, star, maxx, maxy)
  ELSE UpdateStarStatic(v, c, s, star, maxx, maxy)

\* the loop "for (i = lo; i < hi; i++)" of R_UpdateStars over [seed, arr, resp]
RECURSIVE UpdateLoop(_, _, _, _, _, _, _)
UpdateLoop(v, c, st, lo, hi, maxx, maxy) ==
  IF lo >= hi THEN st
  ELSE IF hi = lo + 1
    THEN LET one == UpdateStar(v, c, st.seed, st.arr[lo], maxx, maxy)
         IN [seed |-> one.seed, arr |-> [st.arr EXCEPT ![lo] = one.star],
             resp |-> IF one.respawn THEN st.resp \cup {lo} ELSE st.resp]
    ELSE LET mid == (lo + hi) \div 2
             left == UpdateLoop(v, c, st, lo, mid, maxx, maxy)
         IN IF left.seed.hi < 0 THEN left    \* never; makes TLC evaluate left first
            ELSE UpdateLoop(v, c, left, mid, hi, maxx, maxy)

\* a step whose loop runs "for (i = 0; i <= count; i++)": one star too many
R_UpdateStars_Inclusive(v, c, s, arr, count, maxx, maxy) ==
  IF maxx <= 0 \/ maxy <= 0 THEN [seed |-> s, arr |-> arr, resp |-> {}]
  ELSE UpdateLoop(v, c, [seed |-> s, arr |-> Extend(arr, LoopEnd(v, count + 1)), resp |-> {}], 0,
                  LoopEnd(v, count + 1), maxx, maxy)

\* R_UpdateStars(count, maxx, maxy): [seed, arr, resp], resp the stars respawned
R_UpdateStars(v, c, s, arr, count, maxx, maxy) ==
  IF maxx <= 0 \/ maxy <= 0 THEN [seed |-> s, arr |-> arr, resp |-> {}]
  ELSE UpdateLoop(v, c, [seed |-> s, arr |-> Extend(arr, LoopEnd(v, count)), resp |-> {}], 0,
                  LoopEnd(v, count), maxx, maxy)

---------------------------------------------------------------------------
(* Overlay message and tic timer of the drift variant *)

TIC_DURATION_MS == 1000 \div TICRATE

\* MSG_SetMessage(message, 0, 0, 96, 176, 255, a); the text is kept as <<format, number>>
MSG_SetMessage(message, a) == [text |-> message, timeout |-> 4 * TICRATE, a |-> a]

\* R_DrawMessages: does it draw the message?
R_DrawMessages(m) == m.text # <<>> /\ m.timeout # 0

\* the statics of R_DrawFPS before its first call
FpsZero == [fps |-> 0, frame_count |-> 0, last_fps_time |-> 0]

\* R_DrawFPS past its SHOW_FPS test, with SDL_GetTicks() = now: the statics it
\* leaves, fps being the number it draws
R_DrawFPS(f, now) ==
  IF now - f.last_fps_time >= 1000
    THEN [fps |-> f.frame_count + 1, frame_count |-> 0, last_fps_time |-> now]
    ELSE [f EXCEPT !.frame_count = f.frame_count + 1]

\* a timer that fades the message from its first tic on
I_Ticker_FadeFromStart(ck, m, now) ==
  IF now - ck.last_tic_time >= TIC_DURATION_MS
    THEN LET elapsed_ticks == (now - ck.last_tic_time) \div TIC_DURATION_MS
             t1 == IF m.timeout # 0 THEN m.timeout - 1 ELSE m.timeout
             a1 == IF m.timeout # 0 /\ m.a > 0
                     THEN (IF m.a - 15 > 0 THEN m.a - 15 ELSE 0) ELSE m.a
         IN [clock |-> [now |-> now, gametic |-> ck.gametic + elapsed_ticks,
                        last_tic_time |-> ck.last_tic_time + elapsed_ticks * TIC_DURATION_MS],
             msg |-> [m EXCEPT !.timeout = t1, !.a = a1]]
    ELSE [clock |-> [ck EXCEPT !.now = now], msg |-> m]

\* a timer that decrements the 8-bit countdown without looking at it
I_Ticker_NoGuard(ck, m, now) ==
  IF now - ck.last_tic_time >= TIC_DURATION_MS
    THEN LET elapsed_ticks == (now - ck.last_tic_time) \div TIC_DURATION_MS
             t1 == (m.timeout - 1) % 256
             a1 == IF t1 <= (3 * TICRATE) \div 2 /\ m.a > 0
                     THEN (IF m.a - 15 > 0 THEN m.a - 15 ELSE 0) ELSE m.a
         IN [clock |-> [now |-> now, gametic |-> ck.gametic + elapsed_ticks,
                        last_tic_time |-> ck.last_tic_time + elapsed_ticks * TIC_DURATION_MS],
             msg |-> [m EXCEPT !.timeout = t1, !.a = a1]]
    ELSE [clock |-> [ck EXCEPT !.now = now], msg |-> m]

\* a timer that takes the time of the call for the time of the last tic
I_Ticker_Resync(ck, m, now) ==
  IF now - ck.last_tic_time >= TIC_DURATION_MS
    THEN LET elapsed_ticks == (now - ck.last_tic_time) \div TIC_DURATION_MS
             t1 == IF m.timeout # 0 THEN m.timeout - 1 ELSE m.timeout
             a1 == IF m.timeout # 0 /\ t1 <= (3 * TICRATE) \div 2 /\ m.a > 0
                     THEN (IF m.a - 15 > 0 THEN m.a - 15 ELSE 0) ELSE m.a
         IN [clock |-> [now |-> now, gametic |-> ck.gametic + elapsed_ticks,
                        last_tic_time |-> now],
             msg |-> [m EXCEPT !.timeout = t1, !.a = a1]]
    ELSE [clock |-> [ck EXCEPT !.now = now], msg |-> m]

\* I_Ticker with SDL_GetTicks() = now: [clock, msg]
I_Ticker(ck, m, now) ==
  IF now - ck.last_tic_time >= TIC_DURATION_MS
    THEN LET elapsed_ticks == (now - ck.last_tic_time) \div TIC_DURATION_MS
             t1 == IF m.timeout # 0 THEN m.timeout - 1 ELSE m.timeout
             a1 == IF m.timeout # 0 /\ t1 <= (3 * TICRATE) \div 2 /\ m.a > 0
                     THEN (IF m.a - 15 > 0 THEN m.a - 15 ELSE 0) ELSE m.a
         IN [clock |-> [now |-> now, gametic |-> ck.gametic + elapsed_ticks,
                        last_tic_time |-> ck.last_tic_time + elapsed_ticks * TIC_DURATION_MS],
             msg |-> [m EXCEPT !.timeout = t1, !.a = a1]]
    ELSE [clock |-> [ck EXCEPT !.now = now], msg |-> m]

---------------------------------------------------------------------------
(* Inputs of the environment *)

\* values time(NULL) seeds the generator with
Seeds == { [hi |-> 26000, lo |-> 4660], [hi |-> 1, lo |-> 51966] }

\* output sizes SDL_GetRenderOutputSize / WM_SIZE report
Sizes == { <<0, 0>>, <<3, 2>>, <<800, 600>> }

PositiveSizes == { sz \in Sizes : sz[1] > 0 /\ sz[2] > 0 }

\* milliseconds a loop iteration may take
TimeSteps == { 15, 60 }

Keys == { "ESCAPE", "F5", "F11", "RETURN", "KP_ENTER", "SPACE", "COMMA", "PERIOD",
          "UP", "DOWN", "RIGHT", "LEFT", "A" }

\* a stars.ini naming every parameter under the names of all four programs
FileLines(n) ==
  << KV(G_FULLSCREEN, n.FULLSCREEN), KV(G_NUM_STARS, n.NUM_STARS),
     KV(G_DELAY, n.DELAY_MS), KV(K_delay_ms, n.DELAY_MS),
     KV(G_BRIGHTNESS_STEP, n.BRIGHTNESS_STEP), KV(G_COLORED_STARS, n.COLORED_STARS),
     KV(G_BIG_STARS, n.STAR_SIZE), KV(K_star_size, n.STAR_SIZE),
     KV(K_star_speed, n.STAR_SPEED), KV(K_show_fps, n.SHOW_FPS) >>

FileCfgs ==
  { [FULLSCREEN |-> 0, NUM_STARS |-> 1, DELAY_MS |-> 0, BRIGHTNESS_STEP |-> 255,
     COLORED_STARS |-> 0, STAR_SIZE |-> 1, STAR_SPEED |-> 0, SHOW_FPS |-> 0],
    [FULLSCREEN |-> 1, NUM_STARS |-> 2, DELAY_MS |-> 15, BRIGHTNESS_STEP |-> 128,
     COLORED_STARS |-> 1, STAR_SIZE |-> 3, STAR_SPEED |-> -10, SHOW_FPS |-> 1],
    [FULLSCREEN |-> -1, NUM_STARS |-> -5, DELAY_MS |-> 1001, BRIGHTNESS_STEP |-> 999,
     COLORED_STARS |-> 2, STAR_SIZE |-> 0, STAR_SPEED |-> 11, SHOW_FPS |-> 2],
    [FULLSCREEN |-> 0, NUM_STARS |-> 3, DELAY_MS |-> 5, BRIGHTNESS_STEP |-> 0,
     COLORED_STARS |-> 1, STAR_SIZE |-> 17, STAR_SPEED |-> 10, SHOW_FPS |-> 0] }

Files ==
  { [exists |-> FALSE, lines |-> <<>>] }
    \cup { [exists |-> TRUE, lines |-> FileLines(n)] : n \in FileCfgs }

\* no configuration line
NoLine == [kind |-> "none", key |-> "", n |-> 0, text |-> <<>>]

\* the window rectangle <<left, top, right, bottom>> CreateWindowEx gives the
\* 800x600 window, and the rectangle of the monitor GetMonitorInfo reports
StartRect == <<0, 0, 800, 600>>
MonitorRect == <<0, 0, 1920, 1080>>

\* the window rectangle after the window was given the size sz at its place
RectFor(r, sz) == <<r[1], r[2], r[1] + sz[1], r[2] + sz[2]>>

\* the screen before the program has shown anything: windowed, cursor and screen
\* saver as the system has them, saved_rect = {0}, nothing painted; lit holds the
\* stars whose place on the persistent GDI surface carries their last, not black,
\* paint, msg_drawn tells whether the last frame showed the message, fps holds
\* the statics of R_DrawFPS and fps_shown the number the last frame showed (-1:
\* none), drawn holds the stars the loop of the last R_DrawStars call painted,
\* in whatever colour (the SDL programs clear the frame to black before it)
Screen0 ==
  [fullscreen |-> FALSE, cursor_hidden |-> FALSE, screensaver_off |-> FALSE,
   rect |-> StartRect, saved_rect |-> <<0, 0, 0, 0>>, lit |-> {}, msg_drawn |-> FALSE,
   fps |-> FpsZero, fps_shown |-> -1, drawn |-> {}]

\* inputs of a run: the configuration and the line under test, the frames and
\* events the environment lets the run have; observations: the tics of the last
\* I_Ticker call, the window rectangle right before the last switch to fullscreen,
\* and the frame counter of R_DrawFPS as it stands when it is run in every frame
\* presented, whether the display is on or off (fps.fps: the frames presented in
\* the last second that was completed)
Run(c, ln, nf, ne) ==
  [cfg |-> c, line |-> ln, frames |-> nf, events |-> ne, tics |-> 0, rect |-> <<0, 0, 0, 0>>,
   fps |-> FpsZero]

---------------------------------------------------------------------------
(* The program *)

Init ==
  /\ variant \in Variants
  /\ pc = "start"
  /\ file \in Files
  /\ cfg = Defaults(variant)
  /\ had_cfg = FALSE
  /\ stars = <<>>
  /\ m_rand_seed = [hi |-> 0, lo |-> 1]
  /\ render_w = 800
  /\ render_h = 600
  /\ running = TRUE
  /\ is_fullscreen = FALSE
  /\ screen = Screen0
  /\ msg = [text |-> <<>>, timeout |-> 0, a |-> 0]
  /\ clock = [now |-> 0, gametic |-> 0, last_tic_time |-> 0]
  /\ exit_code = -1
  /\ arg = Run(Defaults(variant), NoLine, MaxFrames, MaxEvents)
  /\ oob = FALSE
  /\ born = <<>>
  /\ age = <<>>
  /\ frames = 0
  /\ nev = 0
  /\ last = "init"

\* stars a loop "for (i = 0; i < count; i++)" touches for the bounds w, h
Touched(count, w, h) ==
  IF w <= 0 \/ h <= 0 THEN {} ELSE 0 .. LoopEnd(variant, count) - 1

\* histories of the stars, kept like the array: 0 where nothing was recorded
At(f, i) == IF i \in DOMAIN f THEN f[i] ELSE 0

\* a loop over count stars runs past the end of the array
Overrun(count, w, h) == w > 0 /\ h > 0 /\ count > Capacity(variant)

\* the star array, the generator and the histories after R_InitStars(count, w, h)
\* called on the array arr with the configuration c and the generator state s
InitStarsEffect(c, s, arr, count, w, h) ==
  \E res \in { R_InitStars(variant, c, s, arr, count, w, h) } :
    LET T == Touched(count, w, h)
    IN /\ stars' = res.arr
       /\ m_rand_seed' = res.seed
       /\ born' = [i \in DOMAIN res.arr |->
                     IF i \in T THEN res.arr[i].brightness ELSE At(born, i)]
       /\ age' = [i \in DOMAIN res.arr |-> IF i \in T THEN 0 ELSE At(age, i)]
       /\ oob' = (oob \/ Overrun(count, w, h))

\* the same after R_UpdateStars(count, w, h)
UpdateStarsEffect(count, w, h) ==
  \E res \in { R_UpdateStars(variant, cfg, m_rand_seed, stars, count, w, h) } :
    LET T == Touched(count, w, h)
    IN /\ stars' = res.arr
       /\ m_rand_seed' = res.seed
       /\ born' = [i \in DOMAIN res.arr |->
                     IF i \in res.resp THEN res.arr[i].brightness ELSE At(born, i)]
       /\ age' = [i \in DOMAIN res.arr |->
                    IF i \in res.resp THEN 0
                    ELSE IF i \in T THEN At(age, i) + 1 ELSE At(age, i)]
       /\ oob' = (oob \/ Overrun(count, w, h))

\* what main goes on to after a step that may have run past the array: such a
\* write is undefined behaviour, the process may die of it or run on
AfterLoop(count, w, h, next) == IF Overrun(count, w, h) THEN {"crashed", next} ELSE {next}

\* I_ToggleFullScreen(enable) of the SDL programs
I_ToggleFullScreen(enable) ==
  /\ screen' = [screen EXCEPT !.fullscreen = enable, !.cursor_hidden = enable,
                               !.screensaver_off = enable]
  /\ cfg' = [cfg EXCEPT !.FULLSCREEN = IF enable THEN 1 ELSE 0]

---------------------------------------------------------------------------
(* main() of the two SDL programs *)

\* m_rand_seed = time(NULL); had_cfg = CFG_Load(CONFIG_FILENAME)
LoadConfigSDL ==
  /\ variant \in SDLVariants
  /\ pc = "start"
  /\ \E t \in Seeds : m_rand_seed' = t
  /\ had_cfg' = file.exists
  /\ cfg' = IF file.exists THEN CFG_Load(variant, cfg, file.lines) ELSE cfg
  /\ pc' = "loaded"
  /\ last' = "load"
  /\ UNCHANGED <<arg, variant, file, stars, render_w, render_h, running, is_fullscreen, screen,
                 msg, clock, exit_code, oob, born, age, frames, nev>>

\* CFG_Check(); if (!had_cfg) CFG_Save(CONFIG_FILENAME)
CheckConfigSDL ==
  /\ variant \in SDLVariants
  /\ pc = "loaded"
  /\ cfg' = CFG_Check(variant, cfg)
  /\ file' = IF had_cfg THEN file ELSE [exists |-> TRUE, lines |-> CFG_Save(variant, cfg')]
  /\ pc' = "checked"
  /\ last' = "check"
  /\ UNCHANGED <<arg, variant, had_cfg, stars, m_rand_seed, render_w, render_h, running,
                 is_fullscreen, screen, msg, clock, exit_code, oob, born, age, frames, nev>>

\* SDL_Init, SDL_CreateWindow or SDL_CreateRenderer fails: return 1
VideoInitFail ==
  /\ variant \in SDLVariants
  /\ pc = "checked"
  /\ pc' = "exit"
  /\ exit_code' = 1
  /\ last' = "initfail"
  /\ UNCHANGED <<arg, variant, file, cfg, had_cfg, stars, m_rand_seed, render_w, render_h, running,
                 is_fullscreen, screen, msg, clock, oob, born, age, frames, nev>>

\* the window and the renderer exist: first R_InitStars, initial fullscreen state.
\* SDL_Init(SDL_INIT_VIDEO) disables the screen saver unless the environment sets
\* the hint SDL_HINT_VIDEO_ALLOW_SCREENSAVER (allow)
VideoInit ==
  /\ variant \in SDLVariants
  /\ pc = "checked"
  /\ \E sz \in PositiveSizes :
       /\ render_w' = sz[1]
       /\ render_h' = sz[2]
       /\ InitStarsEffect(cfg, m_rand_seed, stars, cfg.NUM_STARS, sz[1], sz[2])
  /\ running' = TRUE
  /\ is_fullscreen' = (cfg.FULLSCREEN # 0)
  /\ IF cfg.FULLSCREEN # 0
       THEN I_ToggleFullScreen(TRUE)
       ELSE /\ \E allow \in BOOLEAN :
                 screen' = [screen EXCEPT !.screensaver_off = ~allow]
            /\ UNCHANGED cfg
  /\ pc' = "top"
  /\ last' = "init_stars"
  /\ UNCHANGED <<arg, variant, file, had_cfg, msg, clock, exit_code, frames, nev>>

\* while (running): the drift program runs I_Ticker first
BeginIteration ==
  /\ variant \in SDLVariants
  /\ pc = "top"
  /\ running
  /\ frames < arg.frames
  /\ IF variant = "drift"
       THEN LET t == I_Ticker(clock, msg, clock.now)
            IN /\ clock' = t.clock
               /\ msg' = t.msg
               /\ arg' = [arg EXCEPT !.tics = t.clock.gametic - clock.gametic]
       ELSE UNCHANGED <<clock, msg, arg>>
  /\ pc' = "poll"
  /\ last' = "tick"
  /\ UNCHANGED <<variant, file, cfg, had_cfg, stars, m_rand_seed, render_w, render_h, running,
                 is_fullscreen, screen, exit_code, oob, born, age, frames, nev>>

\* case SDL_EVENT_QUIT
SdlQuit ==
  /\ variant \in SDLVariants
  /\ pc = "poll"
  /\ nev < arg.events
  /\ running' = FALSE
  /\ nev' = nev + 1
  /\ last' = "quit"
  /\ UNCHANGED <<arg, variant, pc, file, cfg, had_cfg, stars, m_rand_seed, render_w, render_h,
                 is_fullscreen, screen, msg, clock, exit_code, oob, born, age, frames>>

\* is_fullscreen = !is_fullscreen; I_ToggleFullScreen(is_fullscreen)
ToggleSDL ==
  /\ is_fullscreen' = ~is_fullscreen
  /\ I_ToggleFullScreen(~is_fullscreen)

\* a hotkey that changes a parameter without a word
SetParam_Unannounced(field, value, text, shown) ==
  /\ cfg' = [cfg EXCEPT ![field] = value]
  /\ msg' = msg

\* a hotkey that changes a parameter and announces it
SetParam(field, value, text, shown) ==
  /\ cfg' = [cfg EXCEPT ![field] = value]
  /\ msg' = MSG_SetMessage(<<text, shown>>, 255)

\* case SDL_EVENT_KEY_DOWN
SdlKeyDown ==
  /\ variant \in SDLVariants
  /\ pc = "poll"
  /\ nev < arg.events
  /\ nev' = nev + 1
  /\ \E sc \in Keys, alt \in BOOLEAN :
       LET drift == variant = "drift" IN
       /\ last' = "key"
       /\ IF sc = "ESCAPE"
            THEN running' = FALSE /\ UNCHANGED <<cfg, msg, is_fullscreen, screen>>
          ELSE IF drift /\ sc = "F5"
            THEN /\ SetParam("SHOW_FPS", 1 - cfg.SHOW_FPS,
                             IF cfg.SHOW_FPS = 0 THEN "FPS counter ON" ELSE "FPS counter OFF", 0)
                 /\ UNCHANGED <<running, is_fullscreen, screen>>
          ELSE IF sc = "F11" \/ (sc \in {"RETURN", "KP_ENTER"} /\ alt)
            THEN ToggleSDL /\ UNCHANGED <<running, msg>>
          ELSE IF drift /\ sc = "SPACE"
            THEN /\ SetParam("COLORED_STARS", 1 - cfg.COLORED_STARS,
                             IF cfg.COLORED_STARS = 0 THEN "Colored stars" ELSE "Grayscale stars", 0)
                 /\ UNCHANGED <<running, is_fullscreen, screen>>
          ELSE IF drift /\ sc = "COMMA" /\ cfg.STAR_SIZE > 1
            THEN /\ SetParam("STAR_SIZE", cfg.STAR_SIZE - 1, "Star size: %d", cfg.STAR_SIZE - 1)
                 /\ UNCHANGED <<running, is_fullscreen, screen>>
          ELSE IF drift /\ sc = "PERIOD" /\ cfg.STAR_SIZE < 16
            THEN /\ SetParam("STAR_SIZE", cfg.STAR_SIZE + 1, "Star size: %d", cfg.STAR_SIZE + 1)
                 /\ UNCHANGED <<running, is_fullscreen, screen>>
          ELSE IF drift /\ sc = "UP" /\ cfg.NUM_STARS < MAXSTARS
            THEN /\ SetParam("NUM_STARS", cfg.NUM_STARS + 1, "Stars: %d", cfg.NUM_STARS + 1)
                 /\ UNCHANGED <<running, is_fullscreen, screen>>
          ELSE IF drift /\ sc = "DOWN" /\ cfg.NUM_STARS > 0
            THEN /\ SetParam("NUM_STARS", cfg.NUM_STARS - 1, "Stars: %d", cfg.NUM_STARS - 1)
                 /\ UNCHANGED <<running, is_fullscreen, screen>>
          ELSE IF drift /\ sc = "RIGHT" /\ cfg.STAR_SPEED < 10
            THEN /\ SetParam("STAR_SPEED", cfg.STAR_SPEED + 1, "Speed: %d", cfg.STAR_SPEED + 1)
                 /\ UNCHANGED <<running, is_fullscreen, screen>>
          ELSE IF drift /\ sc = "LEFT" /\ cfg.STAR_SPEED > -10
            THEN /\ SetParam("STAR_SPEED", cfg.STAR_SPEED - 1, "Speed: %d", cfg.STAR_SPEED - 1)
                 /\ UNCHANGED <<running, is_fullscreen, screen>>
          ELSE UNCHANGED <<running, cfg, msg, is_fullscreen, screen>>
  /\ UNCHANGED <<arg, variant, pc, file, had_cfg, stars, m_rand_seed, render_w, render_h,
                 clock, exit_code, oob, born, age, frames>>

\* case SDL_EVENT_MOUSE_BUTTON_DOWN
SdlMouseButtonDown ==
  /\ variant \in SDLVariants
  /\ pc = "poll"
  /\ nev < arg.events
  /\ nev' = nev + 1
  /\ \E button \in {"LEFT", "RIGHT"}, clicks \in 1 .. 2 :
       /\ last' = "mouse"
       /\ IF button = "LEFT" /\ clicks >= 2
            THEN ToggleSDL
            ELSE UNCHANGED <<is_fullscreen, screen, cfg>>
  /\ UNCHANGED <<arg, variant, pc, file, had_cfg, stars, m_rand_seed, render_w, render_h, running,
                 msg, clock, exit_code, oob, born, age, frames>>

\* a resize that takes the new size and leaves the stars where they are
SdlResize_KeepStars ==
  /\ variant \in SDLVariants
  /\ pc = "poll"
  /\ nev < arg.events
  /\ nev' = nev + 1
  /\ \E sz \in Sizes :
       /\ render_w' = sz[1]
       /\ render_h' = sz[2]
  /\ last' = "resize"
  /\ UNCHANGED <<arg, variant, pc, file, cfg, had_cfg, running, is_fullscreen, screen, msg, clock,
                 exit_code, frames, stars, m_rand_seed, born, age, oob>>

\* case SDL_EVENT_WINDOW_PIXEL_SIZE_CHANGED, SDL_EVENT_WINDOW_RESIZED
SdlResize ==
  /\ variant \in SDLVariants
  /\ pc = "poll"
  /\ nev < arg.events
  /\ nev' = nev + 1
  /\ \E sz \in Sizes :
       /\ render_w' = sz[1]
       /\ render_h' = sz[2]
       /\ InitStarsEffect(cfg, m_rand_seed, stars, cfg.NUM_STARS, sz[1], sz[2])
  /\ last' = "resize"
  /\ UNCHANGED <<arg, variant, pc, file, cfg, had_cfg, running, is_fullscreen, screen, msg, clock,
                 exit_code, frames>>

\* SDL_PollEvent returns false: R_UpdateStars(NUM_STARS, render_w, render_h)
UpdateSDL ==
  /\ variant \in SDLVariants
  /\ pc = "poll"
  /\ UpdateStarsEffect(cfg.NUM_STARS, render_w, render_h)
  /\ pc' = "draw"
  /\ last' = "update"
  /\ UNCHANGED <<arg, variant, file, cfg, had_cfg, render_w, render_h, running, is_fullscreen,
                 screen, msg, clock, exit_code, frames, nev>>

\* R_DrawStars, R_DrawMessages, R_DrawFPS, SDL_RenderPresent, SDL_Delay(DELAY_MS)
DrawSDL ==
  /\ variant \in SDLVariants
  /\ pc = "draw"
  /\ IF variant = "drift"
       THEN \E dt \in TimeSteps : clock' = [clock EXCEPT !.now = clock.now + dt]
       ELSE UNCHANGED clock
  /\ IF variant = "drift"
       THEN /\ screen' = [screen EXCEPT
                            !.drawn = 0 .. LoopEnd(variant, cfg.NUM_STARS) - 1,
                            !.msg_drawn = R_DrawMessages(msg),
                            !.fps = IF cfg.SHOW_FPS # 0 THEN R_DrawFPS(@, clock.now) ELSE @,
                            !.fps_shown = IF cfg.SHOW_FPS # 0
                                            THEN R_DrawFPS(screen.fps, clock.now).fps ELSE -1]
            /\ arg' = [arg EXCEPT !.fps = R_DrawFPS(@, clock.now)]
       ELSE /\ screen' = [screen EXCEPT !.drawn = 0 .. LoopEnd(variant, cfg.NUM_STARS) - 1,
                                          !.msg_drawn = FALSE]
            /\ UNCHANGED arg
  /\ frames' = frames + 1
  /\ pc' = "top"
  /\ last' = "draw"
  /\ UNCHANGED <<variant, file, cfg, had_cfg, stars, m_rand_seed, render_w, render_h, running,
                 is_fullscreen, msg, exit_code, oob, born, age, nev>>

\* a shutdown that leaves stars.ini as the start found it
ShutdownSDL_NoSave ==
  /\ variant \in SDLVariants
  /\ pc = "top"
  /\ ~running
  /\ pc' = "exit"
  /\ exit_code' = 0
  /\ last' = "shutdown"
  /\ UNCHANGED <<arg, variant, file, cfg, had_cfg, stars, m_rand_seed, render_w, render_h, running,
                 is_fullscreen, screen, msg, clock, oob, born, age, frames, nev>>

\* the loop ended: CFG_Save(CONFIG_FILENAME); return 0
ShutdownSDL ==
  /\ variant \in SDLVariants
  /\ pc = "top"
  /\ ~running
  /\ file' = [exists |-> TRUE, lines |-> CFG_Save(variant, cfg)]
  /\ pc' = "exit"
  /\ exit_code' = 0
  /\ last' = "shutdown"
  /\ UNCHANGED <<arg, variant, cfg, had_cfg, stars, m_rand_seed, render_w, render_h, running,
                 is_fullscreen, screen, msg, clock, oob, born, age, frames, nev>>

---------------------------------------------------------------------------
(* WinMain() and WindowProc() of the two GDI programs *)

\* a painter without the erase step, as the first GDI program has it
StarColor_NoErase(v, c, st) ==
  IF c.COLORED_STARS # 0
    THEN << ((st.r * st.brightness) \div 255) % 256, ((st.g * st.brightness) \div 255) % 256,
            ((st.b * st.brightness) \div 255) % 256 >>
    ELSE << st.brightness % 256, st.brightness % 256, st.brightness % 256 >>

\* the colour draw_stars / R_DrawStars paints the star st with; the second program
\* paints a star that is about to go out black
StarColor(v, c, st) ==
  IF v = "gdi2" /\ st.brightness <= c.BRIGHTNESS_STEP THEN <<0, 0, 0>>
  ELSE IF c.COLORED_STARS # 0
    THEN << ((st.r * st.brightness) \div 255) % 256, ((st.g * st.brightness) \div 255) % 256,
            ((st.b * st.brightness) \div 255) % 256 >>
    ELSE << st.brightness % 256, st.brightness % 256, st.brightness % 256 >>

\* draw_stars / R_DrawStars(hdc, stars, count): the stars it leaves lit
R_DrawStars(v, c, arr, count) ==
  { i \in 0 .. LoopEnd(v, count) - 1 : StarColor(v, c, StarAt(arr, i)) # <<0, 0, 0>> }

\* RegisterClassEx or CreateWindowEx fails: return 0
CreateWindowFail ==
  /\ variant \in GDIVariants
  /\ pc = "start"
  /\ pc' = "exit"
  /\ exit_code' = 0
  /\ last' = "initfail"
  /\ UNCHANGED <<arg, variant, file, cfg, had_cfg, stars, m_rand_seed, render_w, render_h, running,
                 is_fullscreen, screen, msg, clock, oob, born, age, frames, nev>>

\* case WM_SIZE for the client size sz, on the array arr and the generator state s
WmSizeEffect(c, s, arr, sz) ==
  /\ render_w' = sz[1]
  /\ render_h' = sz[2]
  /\ InitStarsEffect(c, s, arr, c.NUM_STARS, sz[1], sz[2])

\* CreateWindowEx and ShowWindow: WM_CREATE seeds rand() and initializes the stars
\* for the 800x600 defaults, the first WM_SIZE does it again for the client area
CreateWindowGDI ==
  /\ variant \in GDIVariants
  /\ pc = "start"
  /\ \E t \in Seeds, sz \in PositiveSizes :
       \E created \in { R_InitStars(variant, cfg, t, stars, cfg.NUM_STARS, render_w, render_h) } :
         WmSizeEffect(cfg, created.seed, created.arr, sz)
  /\ pc' = "created"
  /\ last' = "init_stars"
  /\ UNCHANGED <<arg, variant, file, cfg, had_cfg, running, is_fullscreen, screen, msg, clock,
                 exit_code, frames, nev>>

\* load_settings_from_file / M_LoadConfig: a missing file is created, not read
LoadConfigGDI ==
  /\ variant \in GDIVariants
  /\ pc = "created"
  /\ had_cfg' = file.exists
  /\ IF file.exists
       THEN cfg' = M_LoadConfig(variant, cfg, file.lines) /\ UNCHANGED file
       ELSE file' = [exists |-> TRUE, lines |-> M_CreateConfig(variant)] /\ UNCHANGED cfg
  /\ pc' = IF variant = "gdi1" THEN "poll" ELSE "loaded"
  /\ last' = "load"
  /\ UNCHANGED <<arg, variant, stars, m_rand_seed, render_w, render_h, running, is_fullscreen,
                 screen, msg, clock, exit_code, oob, born, age, frames, nev>>

\* a switch that leaves the window where the monitor rectangle had put it
FullscreenGDI_NoRestore(scr, enable) ==
  [scr EXCEPT !.fullscreen = enable, !.cursor_hidden = enable, !.screensaver_off = enable,
              !.saved_rect = IF enable THEN scr.rect ELSE @,
              !.rect = IF enable THEN MonitorRect ELSE @,
              !.lit = {}]

\* the window after toggle_fullscreen / I_ToggleFullscreen: entering saves the
\* rectangle GetWindowRect reports and places the window on the monitor, leaving
\* places it on saved_rect; RedrawWindow(RDW_ERASE) paints the black background
\* of the window class
FullscreenGDI(scr, enable) ==
  [scr EXCEPT !.fullscreen = enable, !.cursor_hidden = enable, !.screensaver_off = enable,
              !.saved_rect = IF enable THEN scr.rect ELSE @,
              !.rect = IF enable THEN MonitorRect ELSE scr.saved_rect,
              !.lit = {}]

\* the client size a fullscreen switch leaves the window with; the WM_SIZE that
\* SetWindowPos / ShowWindow send is handled before the switch returns
ToggleSizeGDI(c, enable) ==
  /\ screen' = FullscreenGDI(screen, enable)
  /\ arg' = IF enable THEN [arg EXCEPT !.rect = screen.rect] ELSE arg
  /\ \E sz \in PositiveSizes :
       IF sz = <<render_w, render_h>>
         THEN UNCHANGED <<render_w, render_h, stars, m_rand_seed, born, age, oob>>
         ELSE WmSizeEffect(c, m_rand_seed, stars, sz)

\* M_CheckConfig(); R_InitializeStars(...); if (FULLSCREEN) I_ToggleFullscreen(hwnd, true)
CheckConfigGDI ==
  /\ variant = "gdi2"
  /\ pc = "loaded"
  /\ \E c \in { M_CheckConfig(cfg) } :
     \E res \in { R_InitStars(variant, c, m_rand_seed, stars, c.NUM_STARS, render_w, render_h) } :
        /\ cfg' = c
        /\ IF c.FULLSCREEN # 0
             THEN /\ screen' = FullscreenGDI(screen, TRUE)
                  /\ arg' = [arg EXCEPT !.rect = screen.rect]
                  /\ \E sz \in PositiveSizes :
                       IF sz = <<render_w, render_h>>
                         THEN /\ UNCHANGED <<render_w, render_h>>
                              /\ InitStarsEffect(c, m_rand_seed, stars, c.NUM_STARS,
                                                 render_w, render_h)
                         ELSE WmSizeEffect(c, res.seed, res.arr, sz)
             ELSE /\ UNCHANGED <<screen, render_w, render_h, arg>>
                  /\ InitStarsEffect(c, m_rand_seed, stars, c.NUM_STARS, render_w, render_h)
  /\ pc' = "poll"
  /\ last' = "init_stars"
  /\ UNCHANGED <<variant, file, had_cfg, running, is_fullscreen, msg, clock, exit_code,
                 frames, nev>>

\* I_ToggleFullscreen(hwnd, FALSE) / toggle_fullscreen(hwnd) from a message handler
ToggleGDI ==
  IF variant = "gdi1"
    THEN /\ is_fullscreen' = ~is_fullscreen
         /\ ToggleSizeGDI(cfg, ~is_fullscreen)
         /\ UNCHANGED cfg
    ELSE /\ cfg' = [cfg EXCEPT !.FULLSCREEN = IF cfg.FULLSCREEN # 0 THEN 0 ELSE 1]
         /\ ToggleSizeGDI(cfg, cfg.FULLSCREEN = 0)
         /\ UNCHANGED is_fullscreen

\* case WM_LBUTTONDBLCLK
WmLButtonDblClk ==
  /\ variant \in GDIVariants
  /\ pc = "poll"
  /\ nev < arg.events
  /\ nev' = nev + 1
  /\ ToggleGDI
  /\ last' = "dblclk"
  /\ UNCHANGED <<variant, pc, file, had_cfg, running, msg, clock, exit_code, frames>>

\* case WM_SYSKEYDOWN (second GDI program only)
WmSysKeyDown ==
  /\ variant = "gdi2"
  /\ pc = "poll"
  /\ nev < arg.events
  /\ nev' = nev + 1
  /\ \E wParam \in {"RETURN", "F10"}, alt \in BOOLEAN :
       /\ last' = "key"
       /\ IF wParam = "RETURN" /\ alt
            THEN ToggleGDI
            ELSE UNCHANGED <<cfg, is_fullscreen, screen, render_w, render_h, stars,
                             m_rand_seed, born, age, oob, arg>>
  /\ UNCHANGED <<variant, pc, file, had_cfg, running, msg, clock, exit_code, frames>>

\* case WM_SIZE: the window has got the client size sz, the handler clears the
\* surface and initializes the stars
WmSize ==
  /\ variant \in GDIVariants
  /\ pc = "poll"
  /\ nev < arg.events
  /\ nev' = nev + 1
  /\ \E sz \in Sizes :
       /\ WmSizeEffect(cfg, m_rand_seed, stars, sz)
       /\ screen' = [screen EXCEPT !.rect = RectFor(screen.rect, sz), !.lit = {}]
  /\ last' = "resize"
  /\ UNCHANGED <<arg, variant, pc, file, cfg, had_cfg, running, is_fullscreen, msg, clock,
                 exit_code, frames>>

\* WM_DESTROY posts WM_QUIT, the message loop returns 0 on it
WmQuit ==
  /\ variant \in GDIVariants
  /\ pc = "poll"
  /\ nev < arg.events
  /\ nev' = nev + 1
  /\ running' = FALSE
  /\ pc' = "exit"
  /\ exit_code' = 0
  /\ last' = "quit"
  /\ UNCHANGED <<arg, variant, file, cfg, had_cfg, stars, m_rand_seed, render_w, render_h,
                 is_fullscreen, screen, msg, clock, oob, born, age, frames>>

\* PeekMessage returns false: GetClientRect, draw_stars / R_DrawStars
DrawGDI ==
  /\ variant \in GDIVariants
  /\ pc = "poll"
  /\ frames < arg.frames
  /\ screen' = [screen EXCEPT !.lit = R_DrawStars(variant, cfg, stars, cfg.NUM_STARS),
                              !.drawn = 0 .. LoopEnd(variant, cfg.NUM_STARS) - 1]
  /\ oob' = (oob \/ cfg.NUM_STARS > Capacity(variant))
  /\ pc' \in (IF cfg.NUM_STARS > Capacity(variant) THEN {"crashed", "update"} ELSE {"update"})
  /\ last' = "draw"
  /\ UNCHANGED <<arg, variant, file, cfg, had_cfg, stars, m_rand_seed, render_w, render_h, running,
                 is_fullscreen, msg, clock, exit_code, born, age, frames, nev>>

\* update_stars / R_UpdateStars, Sleep(DELAY)
UpdateGDI ==
  /\ variant \in GDIVariants
  /\ pc = "update"
  /\ UpdateStarsEffect(cfg.NUM_STARS, render_w, render_h)
  /\ pc' \in AfterLoop(cfg.NUM_STARS, render_w, render_h, "poll")
  /\ frames' = frames + 1
  /\ last' = "update"
  /\ UNCHANGED <<arg, variant, file, cfg, had_cfg, render_w, render_h, running, is_fullscreen,
                 screen, msg, clock, exit_code, nev>>

Next ==
  \/ LoadConfigSDL \/ CheckConfigSDL \/ VideoInitFail \/ VideoInit \/ BeginIteration
  \/ SdlQuit \/ SdlKeyDown \/ SdlMouseButtonDown \/ SdlResize \/ UpdateSDL \/ DrawSDL
  \/ ShutdownSDL
  \/ CreateWindowFail \/ CreateWindowGDI \/ LoadConfigGDI \/ CheckConfigGDI
  \/ WmLButtonDblClk \/ WmSysKeyDown \/ WmSize \/ WmQuit \/ DrawGDI \/ UpdateGDI

Spec == Init /\ [][Next]_vars

---------------------------------------------------------------------------
(* The configuration functions of the SDL programs on their own: CFG_Check, *)
(* CFG_Save and CFG_Load applied to configurations and lines of all kinds.  *)

\* parameters the variant has
Params(v) ==
  IF v = "drift"
    THEN {"FULLSCREEN", "NUM_STARS", "DELAY_MS", "BRIGHTNESS_STEP", "COLORED_STARS",
          "STAR_SIZE", "STAR_SPEED", "SHOW_FPS"}
    ELSE {"FULLSCREEN", "NUM_STARS", "DELAY_MS", "BRIGHTNESS_STEP", "COLORED_STARS",
          "STAR_SIZE"}

AllParams == Params("drift")

MaxSmall == 18
Near == 2

\* values tried for the parameters: small ones of both signs and those around
\* the upper ends of the ranges
CfgValues ==
  (0 - MaxSmall .. MaxSmall)
    \cup { b + d : b \in {255, MAXSTARS, 1000}, d \in 0 - Near .. Near }

CfgInputs ==
  { [f \in AllParams |-> n] : n \in CfgValues } \cup FileCfgs \cup { Defaults(v) : v \in SDLVariants }

\* key names as stars.ini spells them, with the parameter each one sets
KeyParams ==
  { <<K_fullscreen, "FULLSCREEN">>, <<K_num_stars, "NUM_STARS">>, <<K_delay_ms, "DELAY_MS">>,
    <<K_brightness_step, "BRIGHTNESS_STEP">>, <<K_colored_stars, "COLORED_STARS">>,
    <<K_star_size, "STAR_SIZE">>, <<K_star_speed, "STAR_SPEED">>, <<K_show_fps, "SHOW_FPS">> }

\* "star_count", a key no program knows
K_unknown == <<115, 116, 97, 114, 95, 99, 111, 117, 110, 116>>

\* "abc"
T_abc == <<97, 98, 99>>

Upper(s) == [i \in 1 .. Len(s) |-> IF s[i] >= 97 /\ s[i] <= 122 THEN s[i] - 32 ELSE s[i]]

Capitalized(s) == [i \in 1 .. Len(s) |-> IF i = 1 THEN Upper(s)[i] ELSE s[i]]

LineValues == { -3, 0, 7, 50 }

\* one-line files: [kind, key, n, text], key the parameter the line names
LinesFor(kp, n) ==
  LET k == kp[1]
      num == FormatInt(n)
      L(kind, text) == [kind |-> kind, key |-> kp[2], n |-> n, text |-> text]
  IN { L("spaced", k \o <<32>> \o num),
       L("spaced", k \o <<9>> \o num),
       L("spaced", <<32, 32>> \o k \o <<32, 32>> \o num \o <<32>>),
       L("cased", Upper(k) \o <<32>> \o num),
       L("cased", Capitalized(k) \o <<32>> \o num),
       L("equals", k \o <<32, 61, 32>> \o num),
       L("comment", <<35>> \o k \o <<32>> \o num),
       L("comment", <<59, 32>> \o k \o <<32>> \o num),
       L("nosep", k \o num),
       L("nosep", k \o <<61>> \o num),
       L("nosep", k),
       L("nonint", k \o <<32>> \o T_abc) }

TestLines ==
  UNION { LinesFor(kp, n) : kp \in KeyParams, n \in LineValues }
    \cup { [kind |-> "unknown", key |-> "NUM_STARS", n |-> n,
            text |-> K_unknown \o <<32>> \o FormatInt(n)] : n \in LineValues }

\* stars.ini as the program finds it: a file naming every parameter, or one line
CfgFiles ==
  { [lines |-> FileLines(c), line |-> NoLine] : c \in CfgInputs }
    \cup { [lines |-> <<ln.text>>, line |-> ln] : ln \in TestLines }

InitCfg ==
  /\ variant \in SDLVariants
  /\ pc = "start"
  /\ cfg = Defaults(variant)
  /\ \E f \in CfgFiles :
       /\ file = [exists |-> TRUE, lines |-> f.lines]
       /\ arg = Run(cfg, f.line, 0, 0)
  /\ had_cfg = FALSE
  /\ stars = <<>>
  /\ m_rand_seed = [hi |-> 0, lo |-> 1]
  /\ render_w = 800
  /\ render_h = 600
  /\ running = TRUE
  /\ is_fullscreen = FALSE
  /\ screen = Screen0
  /\ msg = [text |-> <<>>, timeout |-> 0, a |-> 0]
  /\ clock = [now |-> 0, gametic |-> 0, last_tic_time |-> 0]
  /\ exit_code = -1
  /\ oob = FALSE
  /\ born = <<>>
  /\ age = <<>>
  /\ frames = 0
  /\ nev = 0
  /\ last = "init"

\* CFG_Load(CONFIG_FILENAME) over the defaults
CfgLoadStep ==
  /\ pc = "start"
  /\ cfg' = CFG_Load(variant, cfg, file.lines)
  /\ arg' = [arg EXCEPT !.cfg = cfg]
  /\ had_cfg' = TRUE
  /\ pc' = IF arg.line.kind = "none" THEN "cfg" ELSE "line"
  /\ last' = "load"
  /\ UNCHANGED <<variant, file, stars, m_rand_seed, render_w, render_h, running,
                 is_fullscreen, screen, msg, clock, exit_code, oob, born, age, frames, nev>>

\* CFG_Check() on the loaded configuration, and again on its result
CfgCheckStep ==
  /\ pc \in {"cfg", "line", "checked"}
  /\ cfg' = CFG_Check(variant, cfg)
  /\ arg' = [arg EXCEPT !.cfg = cfg, !.line = NoLine]
  /\ pc' = "checked"
  /\ last' = "check"
  /\ UNCHANGED <<variant, file, had_cfg, stars, m_rand_seed, render_w, render_h, running,
                 is_fullscreen, screen, msg, clock, exit_code, oob, born, age, frames, nev>>

\* CFG_Save(CONFIG_FILENAME) of a checked configuration
CfgSaveStep ==
  /\ pc = "checked"
  /\ file' = [exists |-> TRUE, lines |-> CFG_Save(variant, cfg)]
  /\ arg' = [arg EXCEPT !.cfg = cfg, !.line = NoLine]
  /\ pc' = "saved"
  /\ last' = "save"
  /\ UNCHANGED <<variant, cfg, had_cfg, stars, m_rand_seed, render_w, render_h, running,
                 is_fullscreen, screen, msg, clock, exit_code, oob, born, age, frames, nev>>

\* a later run: CFG_Load(CONFIG_FILENAME); CFG_Check(), whatever the globals hold
CfgReloadStep ==
  /\ pc = "saved"
  /\ \E other \in FileCfgs \cup {Defaults(variant)} :
       cfg' = CFG_Check(variant, CFG_Load(variant, other, file.lines))
  /\ arg' = [arg EXCEPT !.cfg = cfg, !.line = NoLine]
  /\ had_cfg' = TRUE
  /\ pc' = "reloaded"
  /\ last' = "reload"
  /\ UNCHANGED <<variant, file, stars, m_rand_seed, render_w, render_h, running,
                 is_fullscreen, screen, msg, clock, exit_code, oob, born, age, frames, nev>>

NextCfg == CfgLoadStep \/ CfgCheckStep \/ CfgSaveStep \/ CfgReloadStep

SpecCfg == InitCfg /\ [][NextCfg]_vars

---------------------------------------------------------------------------
(* The simulation step on its own: the main loops started on star fields   *)
(* of every brightness, without window events.                             *)

\* parameters the loops are run with: [NUM_STARS, BRIGHTNESS_STEP, STAR_SPEED]
StepCfgs ==
  { [n |-> 1, s |-> 255, v |-> 0], [n |-> 2, s |-> 128, v |-> -10],
    [n |-> 2, s |-> 100, v |-> 10], [n |-> 2, s |-> 1, v |-> 0] }

\* star i of a field whose first star has brightness b
FieldStar(v, b, i) ==
  [x |-> (IF i = 0 THEN 0 ELSE 2) * XUnit(v), y |-> 1,
   brightness |-> IF i = 0 THEN b ELSE 255 - b, target_brightness |-> 0,
   speed |-> IF v = "drift" THEN 208 ELSE 0, r |-> 255, g |-> 255, b |-> 255]

InitStep ==
  /\ variant \in Variants
  /\ pc = IF variant \in SDLVariants THEN "top" ELSE "poll"
  /\ file = [exists |-> FALSE, lines |-> <<>>]
  /\ \E sc \in StepCfgs :
       cfg = [Defaults(variant) EXCEPT !.FULLSCREEN = 0, !.NUM_STARS = sc.n,
                                       !.BRIGHTNESS_STEP = sc.s,
                                       !.STAR_SPEED = IF variant = "drift" THEN sc.v ELSE 0]
  /\ had_cfg = TRUE
  /\ \E b \in 0 .. 255 : stars = [i \in 0 .. cfg.NUM_STARS - 1 |-> FieldStar(variant, b, i)]
  /\ m_rand_seed = [hi |-> 26000, lo |-> 4660]
  /\ \E sz \in PositiveSizes : render_w = sz[1] /\ render_h = sz[2]
  /\ running = TRUE
  /\ is_fullscreen = FALSE
  /\ screen = [Screen0 EXCEPT !.screensaver_off = variant \in SDLVariants]
  /\ msg = [text |-> <<>>, timeout |-> 0, a |-> 0]
  /\ clock = [now |-> 0, gametic |-> 0, last_tic_time |-> 0]
  /\ exit_code = -1
  /\ oob = FALSE
  /\ arg = Run(cfg, NoLine, MaxFrames, 0)
  /\ born = [i \in DOMAIN stars |-> stars[i].brightness]
  /\ age = [i \in DOMAIN stars |-> 0]
  /\ frames = 0
  /\ nev = 0
  /\ last = "init_stars"

NextStep == BeginIteration \/ UpdateSDL \/ DrawSDL \/ DrawGDI \/ UpdateGDI

SpecStep == InitStep /\ [][NextStep]_vars

---------------------------------------------------------------------------
(* The main loops with their window events: the programs at the top of the *)
(* loop after a start that found a stars.ini, with more events than Spec   *)
(* lets a run have.  The GDI programs get one event more than the SDL       *)
(* programs, for a resize between two fullscreen switches.                 *)

LoopFrames == 2
LoopEvents == 2

\* the configuration the next start of the program runs with when it finds the
\* file with these lines: the load over the initial values, then the check the
\* program has
NextStart(v, lines) ==
  CASE v = "gdi1" -> M_LoadConfig(v, Defaults(v), lines)
    [] v = "gdi2" -> M_CheckConfig(M_LoadConfig(v, Defaults(v), lines))
    [] OTHER      -> CFG_Check(v, CFG_Load(v, Defaults(v), lines))

\* the screen as the start with the configuration c leaves it: the SDL programs
\* and the second GDI program go fullscreen when FULLSCREEN is set, SDL_Init has
\* switched the screen saver off
ScreenAtLoop(v, c) ==
  IF v = "gdi2" /\ c.FULLSCREEN # 0 THEN FullscreenGDI(Screen0, TRUE)
  ELSE IF v \in SDLVariants
    THEN [Screen0 EXCEPT !.fullscreen = c.FULLSCREEN # 0, !.cursor_hidden = c.FULLSCREEN # 0,
                         !.screensaver_off = TRUE]
    ELSE Screen0

InitEvents ==
  /\ variant \in Variants
  /\ pc = IF variant \in SDLVariants THEN "top" ELSE "poll"
  /\ \E n \in FileCfgs : file = [exists |-> TRUE, lines |-> FileLines(n)]
  /\ cfg = NextStart(variant, file.lines)
  /\ had_cfg = TRUE
  /\ render_w = 800
  /\ render_h = 600
  /\ \E res \in { R_InitStars(variant, cfg, [hi |-> 26000, lo |-> 4660], <<>>,
                              cfg.NUM_STARS, render_w, render_h) } :
       stars = res.arr /\ m_rand_seed = res.seed
  /\ running = TRUE
  /\ is_fullscreen = (variant \in SDLVariants /\ cfg.FULLSCREEN # 0)
  /\ screen = ScreenAtLoop(variant, cfg)
  /\ msg = [text |-> <<>>, timeout |-> 0, a |-> 0]
  /\ clock = [now |-> 0, gametic |-> 0, last_tic_time |-> 0]
  /\ exit_code = -1
  /\ oob = FALSE
  /\ arg = [Run(cfg, NoLine, LoopFrames,
                IF variant \in SDLVariants THEN LoopEvents ELSE LoopEvents + 1)
              EXCEPT !.rect = IF screen.fullscreen THEN StartRect ELSE @]
  /\ born = [i \in DOMAIN stars |-> stars[i].brightness]
  /\ age = [i \in DOMAIN stars |-> 0]
  /\ frames = 0
  /\ nev = 0
  /\ last = "init_stars"

NextEvents ==
  \/ BeginIteration \/ SdlQuit \/ SdlKeyDown \/ SdlMouseButtonDown \/ SdlResize
  \/ UpdateSDL \/ DrawSDL \/ ShutdownSDL
  \/ WmLButtonDblClk \/ WmSysKeyDown \/ WmSize \/ WmQuit \/ DrawGDI \/ UpdateGDI

SpecEvents == InitEvents /\ [][NextEvents]_vars

---------------------------------------------------------------------------
(* The overlay message of the drift program: the main loop started while a *)
(* message is at any point of its life.                                    *)

MsgFrames == 3
MsgEvents == 1
MaxLeft == 12

\* the message k counting I_Ticker calls after MSG_SetMessage has set it (the
\* calls are taken in two halves, the second applied to the value the first has
\* left, which keeps the evaluation shallow)
RECURSIVE Ticked(_, _)
Ticked(m, k) ==
  IF k = 0 THEN m
  ELSE IF k = 1
    THEN I_Ticker([now |-> 0, gametic |-> 0, last_tic_time |-> 0], m, TIC_DURATION_MS).msg
    ELSE CHOOSE r \in { Ticked(m1, k1) : m1 \in { Ticked(m, k \div 2) },
                                         k1 \in { k - (k \div 2) } } : TRUE

\* the frame counter f after the frames lo .. hi - 1 of a run that presents one
\* frame per tic, frame j at the time j * TIC_DURATION_MS (taken in two halves)
RECURSIVE Presented(_, _, _)
Presented(f, lo, hi) ==
  IF lo >= hi THEN f
  ELSE IF hi = lo + 1 THEN R_DrawFPS(f, lo * TIC_DURATION_MS)
  ELSE CHOOSE r \in { Presented(f1, mid, hi1) :
                        f1 \in { Presented(f, lo, (lo + hi) \div 2) },
                        mid \in { (lo + hi) \div 2 }, hi1 \in { hi } } : TRUE

\* the loop of the drift program after the DOWN key has taken the last star away
\* and announced it, with one tic gone by per iteration since, for the countdowns
\* in Left; nf frames and ne events are still to come.  The key came in the first
\* iteration and every iteration since has presented its frame
InitMessage(Left, nf, ne) ==
  /\ variant = "drift"
  /\ pc = "top"
  /\ file = [exists |-> FALSE, lines |-> <<>>]
  /\ cfg = [CFG_Check(variant, Defaults(variant)) EXCEPT !.FULLSCREEN = 0, !.NUM_STARS = 0]
  /\ had_cfg = TRUE
  /\ stars = <<>>
  /\ m_rand_seed = [hi |-> 26000, lo |-> 4660]
  /\ render_w = 800
  /\ render_h = 600
  /\ running = TRUE
  /\ is_fullscreen = FALSE
  /\ screen = ScreenAtLoop(variant, cfg)
  /\ \E left \in Left :
       LET k == 4 * TICRATE - left
       IN /\ msg = Ticked(MSG_SetMessage(<<"Stars: %d", 0>>, 255), k)
          /\ clock = [now |-> k * TIC_DURATION_MS, gametic |-> k,
                      last_tic_time |-> k * TIC_DURATION_MS]
          /\ arg = [Run(cfg, NoLine, nf, ne) EXCEPT !.fps = Presented(FpsZero, 0, k)]
  /\ exit_code = -1
  /\ oob = FALSE
  /\ born = <<>>
  /\ age = <<>>
  /\ frames = 0
  /\ nev = 0
  /\ last = "draw"

InitMsg == InitMessage(0 .. 4 * TICRATE, MsgFrames, MsgEvents)

NextMsg == BeginIteration \/ SdlKeyDown \/ UpdateSDL \/ DrawSDL

SpecMsg == InitMsg /\ [][NextMsg]_vars

\* the same loop left alone: no event arrives, the loop runs on and its clock
\* advances with every frame, for as many frames as a message with MaxLeft counts
\* left can take
InitLive == InitMessage(0 .. MaxLeft, 2 * MaxLeft + 2, 0)

NextLive == BeginIteration \/ UpdateSDL \/ DrawSDL

SpecLive ==
  /\ InitLive
  /\ [][NextLive]_vars
  /\ WF_vars(BeginIteration) /\ WF_vars(UpdateSDL) /\ WF_vars(DrawSDL)

---------------------------------------------------------------------------
(* The programs started with a stars.ini that asks for no star or for many *)

BigFrames == 1
BigEvents == 1

\* star counts at the ends of the range and at and beyond the capacity of the
\* arrays
BigCounts == { 0, GDI1_STARS, GDI1_STARS + 1, MAXSTARS + 1 }

\* a file naming the count n; the size and the speed of the stars lie at or below
\* the lower end of their ranges with the small counts, at or above the upper end
\* with the large ones
BigFile(n) ==
  [exists |-> TRUE,
   lines |-> FileLines([FULLSCREEN |-> 0, NUM_STARS |-> n, DELAY_MS |-> 15,
                        BRIGHTNESS_STEP |-> 128, COLORED_STARS |-> 1,
                        STAR_SIZE |-> IF n = 0 THEN 0 ELSE IF n <= GDI1_STARS THEN 1
                                      ELSE IF n <= MAXSTARS THEN 16 ELSE 17,
                        STAR_SPEED |-> IF n = 0 THEN -11 ELSE IF n <= GDI1_STARS THEN -10
                                       ELSE IF n <= MAXSTARS THEN 10 ELSE 11,
                        SHOW_FPS |-> 0])]

BigFiles == { BigFile(n) : n \in BigCounts }

\* the program before its first statement, stars.ini being one of BigFiles
InitBig ==
  /\ variant \in Variants
  /\ pc = "start"
  /\ file \in BigFiles
  /\ cfg = Defaults(variant)
  /\ had_cfg = FALSE
  /\ stars = <<>>
  /\ m_rand_seed = [hi |-> 0, lo |-> 1]
  /\ render_w = 800
  /\ render_h = 600
  /\ running = TRUE
  /\ is_fullscreen = FALSE
  /\ screen = Screen0
  /\ msg = [text |-> <<>>, timeout |-> 0, a |-> 0]
  /\ clock = [now |-> 0, gametic |-> 0, last_tic_time |-> 0]
  /\ exit_code = -1
  /\ arg = Run(Defaults(variant), NoLine, BigFrames, BigEvents)
  /\ oob = FALSE
  /\ born = <<>>
  /\ age = <<>>
  /\ frames = 0
  /\ nev = 0
  /\ last = "init"

SpecBig == InitBig /\ [][Next]_vars

---------------------------------------------------------------------------
(* The hotkeys of the drift program at the ends of the ranges *)

KeyFrames == 1
KeyEvents == 2

\* the top of the main loop of the drift program after a start that found a
\* stars.ini with every adjustable parameter at or beyond one end of its range
InitKeys ==
  /\ variant = "drift"
  /\ pc = "top"
  /\ file \in { BigFile(0), BigFile(MAXSTARS + 1) }
  /\ cfg = NextStart(variant, file.lines)
  /\ had_cfg = TRUE
  /\ render_w = 800
  /\ render_h = 600
  /\ \E res \in { R_InitStars(variant, cfg, [hi |-> 26000, lo |-> 4660], <<>>,
                              cfg.NUM_STARS, render_w, render_h) } :
       stars = res.arr /\ m_rand_seed = res.seed
  /\ running = TRUE
  /\ is_fullscreen = FALSE
  /\ screen = ScreenAtLoop(variant, cfg)
  /\ msg = [text |-> <<>>, timeout |-> 0, a |-> 0]
  /\ clock = [now |-> 0, gametic |-> 0, last_tic_time |-> 0]
  /\ exit_code = -1
  /\ oob = FALSE
  /\ arg = Run(cfg, NoLine, KeyFrames, KeyEvents)
  /\ born = [i \in DOMAIN stars |-> stars[i].brightness]
  /\ age = [i \in DOMAIN stars |-> 0]
  /\ frames = 0
  /\ nev = 0
  /\ last = "init_stars"

NextKeys == BeginIteration \/ SdlKeyDown \/ UpdateSDL \/ DrawSDL

SpecKeys == InitKeys /\ [][NextKeys]_vars

---------------------------------------------------------------------------
(* The drift program with keys and resizes to positive sizes *)

StaleFrames == 1
StaleEvents == 3

\* a stars.ini with the initial values of the drift program, but windowed, a few
\* stars only and the stars drifting left, standing or drifting right
StaleFiles ==
  { [exists |-> TRUE,
     lines |-> FileLines([Defaults("drift") EXCEPT !.FULLSCREEN = 0, !.NUM_STARS = 2,
                                                   !.STAR_SPEED = s])] : s \in {-3, 0, 3} }

\* the top of the main loop of the drift program after a start that found
\* stars.ini, the window being 800 by 600
InitStale ==
  /\ variant = "drift"
  /\ pc = "top"
  /\ file \in StaleFiles
  /\ cfg = NextStart(variant, file.lines)
  /\ had_cfg = TRUE
  /\ render_w = 800
  /\ render_h = 600
  /\ \E res \in { R_InitStars(variant, cfg, [hi |-> 26000, lo |-> 4660], <<>>,
                              cfg.NUM_STARS, render_w, render_h) } :
       stars = res.arr /\ m_rand_seed = res.seed
  /\ running = TRUE
  /\ is_fullscreen = (cfg.FULLSCREEN # 0)
  /\ screen = ScreenAtLoop(variant, cfg)
  /\ msg = [text |-> <<>>, timeout |-> 0, a |-> 0]
  /\ clock = [now |-> 0, gametic |-> 0, last_tic_time |-> 0]
  /\ exit_code = -1
  /\ oob = FALSE
  /\ arg = [Run(cfg, NoLine, StaleFrames, StaleEvents)
              EXCEPT !.rect = IF screen.fullscreen THEN StartRect ELSE @]
  /\ born = [i \in DOMAIN stars |-> stars[i].brightness]
  /\ age = [i \in DOMAIN stars |-> 0]
  /\ frames = 0
  /\ nev = 0
  /\ last = "init_stars"

\* a resize event that reports a size with both sides positive
SdlResizePositive == SdlResize /\ render_w' > 0 /\ render_h' > 0

NextStale == BeginIteration \/ SdlKeyDown \/ SdlResizePositive \/ UpdateSDL \/ DrawSDL

SpecStale == InitStale /\ [][NextStale]_vars

---------------------------------------------------------------------------
(* Properties of the star field *)

\* brightness a respawned star gets
FreshRange(v) == IF v = "drift" THEN 128 .. 255 ELSE {255}

\* stars the loops of a step or an initializer go over
Active == 0 .. LoopEnd(variant, cfg.NUM_STARS) - 1

\* ceil(b / s)
Ceil(b, s) == (b + s - 1) \div s

\* the state is the one a simulation step with positive bounds has left
AfterStep == last = "update" /\ render_w > 0 /\ render_h > 0

\* star i was respawned by the simulation step that led to this state
Respawned(i) == AfterStep /\ i \in Active /\ At(age, i) = 0

\* C1: in the SDL programs every star of the array has a brightness of 0..255 in
\* every reachable state (the stars behind the written part of the array are zero).
C1_BrightnessInRange ==
  variant \in SDLVariants =>
    \A i \in DOMAIN stars : stars[i].brightness >= 0 /\ stars[i].brightness <= 255

\* C1 witness: an SDL program after a step that respawned one star and faded another
C1_Witness ==
  /\ variant \in SDLVariants
  /\ AfterStep
  /\ \E i, j \in Active :
       /\ Respawned(i) /\ stars[i].brightness >= 128
       /\ At(age, j) >= 1 /\ stars[j].brightness < At(born, j)

\* what the initializer guarantees for count stars and the bounds w, h, between
\* the array before (old) and after (new)
InitializerPost(old, new, count, w, h) ==
  IF w > 0 /\ h > 0
    THEN \A i \in 0 .. Capacity(variant) - 1 :
           IF i < count
             THEN LET st == StarAt(new, i)
                  IN /\ 0 <= st.x /\ st.x < w * XUnit(variant)
                     /\ 0 <= st.y /\ st.y < h
                     /\ 0 <= st.brightness /\ st.brightness <= 255
             ELSE StarAt(new, i) = StarAt(old, i)
    ELSE \A i \in 0 .. Capacity(variant) - 1 : StarAt(new, i) = StarAt(old, i)

\* C2: a resize event runs the initializer once, with NUM_STARS and the new size:
\* for a count of 0..capacity and a positive size the stars below the count end
\* inside the bounds with brightness 0..255 and the others are unchanged; for a
\* width or height of 0 no star changes.
C2_InitializerPost ==
  [][ (last' = "resize" /\ cfg.NUM_STARS \in 0 .. Capacity(variant))
        => InitializerPost(stars, stars', cfg.NUM_STARS, render_w', render_h') ]_vars

\* C2 witness: after a resize to a positive size that initialized fewer stars than
\* the array already held
C2_Witness ==
  /\ last = "resize"
  /\ render_w > 0 /\ render_h > 0
  /\ cfg.NUM_STARS >= 1
  /\ \E i \in DOMAIN stars : i >= cfg.NUM_STARS /\ stars[i] # ZeroStar

\* a drift star about to leave the horizontal bounds in the direction of travel
LeavesBounds(st) ==
  /\ variant = "drift"
  /\ \/ cfg.STAR_SPEED > 0 /\ st.x + cfg.STAR_SPEED * st.speed > render_w * XUnit(variant)
     \/ cfg.STAR_SPEED < 0 /\ st.x + cfg.STAR_SPEED * st.speed < 0

\* one simulation step seen from star i, spawned with brightness b, k steps ago:
\* it has brightness b - k*s > 0; the step either leaves it b - (k+1)*s > 0, or,
\* being the ceil(b/s)-th, fades it out and respawns it at once
FadeStep(i) ==
  LET b == At(born, i)
      k == At(age, i)
      s == cfg.BRIGHTNESS_STEP
      st == StarAt(stars, i)
      new == StarAt(stars', i)
  IN b \in 1 .. 255 =>
       /\ st.brightness = b - k * s
       /\ st.brightness >= 1
       /\ IF LeavesBounds(st) \/ k + 1 >= Ceil(b, s)
            THEN At(age', i) = 0 /\ new.brightness \in FreshRange(variant)
            ELSE At(age', i) = k + 1 /\ new.brightness = b - (k + 1) * s

\* C3 (as the code has it): a star spawned with brightness b in 1..255 has
\* brightness b - k*s > 0 after k < ceil(b/s) steps, and the ceil(b/s)-th step takes
\* it to 0 and respawns it within that same step (a drift star that leaves the
\* horizontal bounds is respawned earlier): it is never left with brightness 0.
C3_FadeAndRespawnInOneStep ==
  [][ (last' = "update" /\ render_w > 0 /\ render_h > 0 /\ cfg.BRIGHTNESS_STEP \in 1 .. 255)
        => \A i \in Active : FadeStep(i) ]_vars

\* C3 as stated: the step that takes a brightness of 1..s to 0 leaves the star
\* with brightness 0, and only the step after that one respawns it
C3_RespawnOnTheNextStep ==
  [][ (last' = "update" /\ render_w > 0 /\ render_h > 0 /\ cfg.BRIGHTNESS_STEP \in 1 .. 255)
        => \A i \in Active :
             LET b == StarAt(stars, i).brightness
             IN /\ (b \in 1 .. cfg.BRIGHTNESS_STEP /\ ~LeavesBounds(StarAt(stars, i)))
                     => StarAt(stars', i).brightness = 0
                /\ b = 0 => At(age', i) = 0 ]_vars

\* C3 witness: after a step, one star respawned by it and one that has been
\* fading for at least one step
C3_Witness ==
  /\ AfterStep
  /\ cfg.BRIGHTNESS_STEP \in 2 .. 255
  /\ \E i, j \in Active :
       /\ Respawned(i)
       /\ At(born, j) \in 1 .. 255 /\ At(age, j) >= 1
       /\ stars[j].brightness = At(born, j) - At(age, j) * cfg.BRIGHTNESS_STEP

\* C4: after a simulation step with positive bounds no active star has brightness
\* 0, and with NUM_STARS = 1 and BRIGHTNESS_STEP = 255 the star has a brightness of
\* the fresh range after every step.
C4_NoDarkStarAfterStep ==
  AfterStep =>
    /\ \A i \in Active : StarAt(stars, i).brightness # 0
    /\ (cfg.NUM_STARS = 1 /\ cfg.BRIGHTNESS_STEP = 255)
         => StarAt(stars, 0).brightness \in FreshRange(variant)

\* C4 witness: the single star of the scenario after the first step of an SDL
\* program, respawned by it
C4_Witness ==
  /\ AfterStep
  /\ cfg.NUM_STARS = 1 /\ cfg.BRIGHTNESS_STEP = 255
  /\ variant \in SDLVariants /\ frames = 0
  /\ Respawned(0)
  /\ StarAt(stars, 0).brightness \in FreshRange(variant)

\* C5 as stated: a star respawned by a simulation step ends the step with a
\* brightness of the fresh range and with 0 <= x < width, 0 <= y < height.
C5_RespawnInsideBounds ==
  \A i \in DOMAIN stars :
    Respawned(i) =>
      /\ stars[i].brightness \in FreshRange(variant)
      /\ 0 <= stars[i].x /\ stars[i].x < render_w * XUnit(variant)
      /\ 0 <= stars[i].y /\ stars[i].y < render_h

---------------------------------------------------------------------------
(* Properties of the configuration *)

\* places of the main loops, where every parameter is read
UsePoints == {"top", "poll", "update", "draw"}

\* valid ranges of the parameters in the running program (size: 0..16 at most)
InValidRange(v, c) ==
  /\ c.NUM_STARS \in 0 .. Capacity(v)
  /\ c.DELAY_MS \in 0 .. 1000
  /\ c.BRIGHTNESS_STEP \in 1 .. 255
  /\ c.COLORED_STARS \in 0 .. 1
  /\ c.STAR_SIZE \in 0 .. 16
  /\ c.FULLSCREEN \in 0 .. 1

\* C6 as stated: in every program, whatever stars.ini holds, the parameters are in
\* their valid ranges wherever initialization, step, renderer and delay read them.
C6_ParamsInRangeAtUse == pc \in UsePoints => InValidRange(variant, cfg)

\* the boundary of lo..hi nearest to n, n itself inside the range
Nearest(lo, hi, n) ==
  IF n \in lo .. hi THEN n
  ELSE CHOOSE b \in {lo, hi} :
         \A o \in {lo, hi} : (IF n > b THEN n - b ELSE b - n) <= (IF n > o THEN n - o ELSE o - n)

\* the ranges CFG_Save writes into the file
SavedRange(f) ==
  CASE f = "FULLSCREEN" -> <<0, 1>>
    [] f = "NUM_STARS" -> <<0, 500>>
    [] f = "DELAY_MS" -> <<0, 1000>>
    [] f = "BRIGHTNESS_STEP" -> <<1, 255>>
    [] f = "COLORED_STARS" -> <<0, 1>>
    [] f = "STAR_SIZE" -> <<1, 16>>
    [] f = "STAR_SPEED" -> <<-10, 10>>
    [] f = "SHOW_FPS" -> <<0, 1>>

\* the ranges as the specification documents them: a size of 0..16
DocumentedRange(f) == IF f = "STAR_SIZE" THEN <<0, 16>> ELSE SavedRange(f)

\* C7 (as the code has it): CFG_Check is the identity on a parameter inside its
\* range and gives the nearest boundary otherwise, the ranges being count 0..500,
\* delay 0..1000, step 1..255, colour 0..1, size 1..16, speed -10..10,
\* fullscreen 0..1, fps 0..1: a size of 0 becomes 1.
C7_ClampToNearestBoundary ==
  (pc = "checked" /\ last = "check") =>
    \A f \in Params(variant) :
      cfg[f] = Nearest(SavedRange(f)[1], SavedRange(f)[2], arg.cfg[f])

\* C7 as stated: the same with a size range of 0..16, a size of 0 left unchanged
C7_ClampToDocumentedRange ==
  (pc = "checked" /\ last = "check") =>
    \A f \in Params(variant) :
      cfg[f] = Nearest(DocumentedRange(f)[1], DocumentedRange(f)[2], arg.cfg[f])

\* C7 witness: brightness_step 999 became 255, num_stars -5 became 0, size 0 became 1
C7_Witness ==
  /\ pc = "checked" /\ last = "check"
  /\ arg.cfg.BRIGHTNESS_STEP = 999 /\ cfg.BRIGHTNESS_STEP = 255
  /\ arg.cfg.NUM_STARS = -5 /\ cfg.NUM_STARS = 0
  /\ arg.cfg.STAR_SIZE = 0 /\ cfg.STAR_SIZE = 1

\* C8: a checked configuration that is saved and then loaded and checked over any
\* other configuration comes back with every parameter as it was saved, and
\* checking a checked configuration changes nothing.
C8_SaveLoadRoundTrip ==
  /\ pc = "reloaded" => \A f \in Params(variant) : cfg[f] = arg.cfg[f]
  /\ pc = "checked" => CFG_Check(variant, cfg) = cfg

\* C8 witness: the drift program got a negative star_speed back from the file
C8_Witness ==
  /\ pc = "reloaded"
  /\ variant = "drift"
  /\ cfg.STAR_SPEED < 0
  /\ cfg = arg.cfg

\* the line names a parameter the variant reads from the file
Recognized == arg.line.key \in Params(variant)

\* C9 as stated: "key value", "KEY value" and "key = value" all set the parameter
\* of the key to the value.
C9_EqualsSignAndCase ==
  (pc = "line" /\ Recognized /\ arg.line.kind \in {"spaced", "cased", "equals"})
    => cfg[arg.line.key] = arg.line.n

\* C10 as stated: a comment, a line without separator, a line with an unknown key
\* and a line whose value is no integer change no parameter; the other lines
\* change the parameter of their key only.
C10_MalformedLinesIgnored ==
  pc = "line" =>
    /\ arg.line.kind \in {"comment", "nosep", "unknown", "nonint"} => cfg = arg.cfg
    /\ \A f \in AllParams : f # arg.line.key => cfg[f] = arg.cfg[f]

---------------------------------------------------------------------------
(* Properties of the start and the end of a run *)

\* the program has just come past the load (and check) of a start without stars.ini
\* and has written the file
StartedWithoutFile ==
  /\ ~had_cfg /\ file.exists
  /\ pc \notin {"start", "created", "exit"}
  /\ last \in {"load", "check"}

\* C11 as stated: in every variant a start without stars.ini writes a file whose
\* values are those the run goes on with, so the next start, loading that file,
\* runs with the same configuration.
C11_DefaultFileMatchesRun ==
  StartedWithoutFile =>
    \A f \in Params(variant) : NextStart(variant, file.lines)[f] = cfg[f]

\* an SDL program has returned from main after its loop
LeftTheLoop == variant \in SDLVariants /\ pc = "exit" /\ last = "shutdown"

\* C12: in the SDL programs, once a quit event or an Escape key has cleared
\* `running' no further iteration begins (the current one is completed, then the
\* loop ends), and the program that has left the loop has written the values its
\* configuration had at that moment, hotkey changes and the fullscreen state
\* included, and has returned 0; a start that loads this file runs with exactly
\* those values.
C12_QuitSavesCurrentValues ==
  /\ [](LeftTheLoop =>
          /\ exit_code = 0
          /\ ~running
          /\ file = [exists |-> TRUE, lines |-> CFG_Save(variant, cfg)]
          /\ \A f \in Params(variant) : NextStart(variant, file.lines)[f] = cfg[f])
  /\ [][ /\ (variant \in SDLVariants /\ last' \in {"quit", "key"} /\ running /\ ~running') =>
              pc' = "poll"
         /\ (variant \in SDLVariants /\ ~running) =>
              /\ ~running'
              /\ last' \in {"quit", "key", "mouse", "resize", "update", "draw", "shutdown"}
              /\ cfg' = cfg \/ last' \in {"key", "mouse"}
         /\ (variant \in SDLVariants /\ ~running /\ pc = "top") => LeftTheLoop' ]_vars

\* an SDL program has left the loop with values a hotkey or a fullscreen switch
\* of this run has changed, and has saved them
C12_Witness ==
  /\ LeftTheLoop
  /\ cfg # arg.cfg
  /\ nev = 2
  /\ file.lines = CFG_Save(variant, cfg)

---------------------------------------------------------------------------
(* Fullscreen *)

\* C13: in the GDI programs the switch that leaves fullscreen puts the window on
\* the rectangle it had right before the switch that entered fullscreen, whatever
\* WM_SIZE arrived in between (arg.rect is that rectangle: recorded when fullscreen
\* is entered, untouched while fullscreen lasts); for the second program started
\* in fullscreen from stars.ini it is the rectangle the window was created with.
C13_ToggleTwiceRestoresGeometry ==
  /\ []((variant = "gdi2" /\ screen.fullscreen /\ nev = 0) => arg.rect = StartRect)
  /\ [][ /\ (variant \in GDIVariants /\ ~screen.fullscreen /\ screen'.fullscreen) =>
              arg'.rect = screen.rect
         /\ (variant \in GDIVariants /\ screen.fullscreen /\ screen'.fullscreen) =>
              arg'.rect = arg.rect
         /\ (variant \in GDIVariants /\ screen.fullscreen /\ ~screen'.fullscreen) =>
              screen'.rect = arg.rect ]_vars

\* a GDI window that was resized, switched to fullscreen and back is on the
\* rectangle the resize had given it
C13_Witness ==
  /\ variant \in GDIVariants
  /\ last \in {"dblclk", "key"}
  /\ nev = 3
  /\ ~screen.fullscreen
  /\ screen.rect = arg.rect
  /\ screen.rect # StartRect

\* the program has finished its start and runs its main loop
InMainLoop == pc \in {"top", "poll", "draw", "update"}

\* C14 as stated: in the SDL programs and the second GDI program, from the end
\* of the start on, the fullscreen flag (is_fullscreen; the second GDI program
\* has FULLSCREEN only), the FULLSCREEN variable, "cursor hidden" and "screen
\* saver disabled" agree: all true in fullscreen, all false in a window.
C14_FullscreenStateAgrees ==
  (variant \in SDLVariants \cup {"gdi2"} /\ InMainLoop) =>
    LET fs == IF variant \in SDLVariants THEN is_fullscreen ELSE cfg.FULLSCREEN # 0
    IN /\ (cfg.FULLSCREEN # 0) = fs
       /\ screen.fullscreen = fs
       /\ screen.cursor_hidden = fs
       /\ screen.screensaver_off = fs

---------------------------------------------------------------------------
(* The overlay message and the tic timer of the drift program *)

\* C15 as stated: in the drift program, over every step that sets no new message
\* the countdown goes down by the number of logic tics that have elapsed, the
\* amount by which gametic has advanced, and not below 0.
C15_CountdownFollowsGametic ==
  [][ (variant = "drift" /\ last' # "key") =>
        LET tics == clock'.gametic - clock.gametic
        IN msg'.timeout = IF msg.timeout > tics THEN msg.timeout - tics ELSE 0 ]_vars

\* alpha of a message whose countdown the timer has just decremented to t
AlphaAfterDecrement(a, t) ==
  IF t > 52 THEN a ELSE IF a - 15 > 0 THEN a - 15 ELSE 0

\* C16: in the drift program the alpha of a message has its initial value 255
\* while the countdown is above 52; a step that decrements the countdown and
\* leaves it at 52 or below takes 15 off the alpha, stopping at 0, a step that
\* leaves the countdown alone leaves the alpha alone; the alpha stays within
\* 0..255 and only a key that sets a new message raises it.
C16_AlphaFadesInSteps ==
  /\ []((variant = "drift" /\ msg.timeout > 52) => msg.a = 255)
  /\ []((variant = "drift") => msg.a \in 0 .. 255 /\ msg.timeout \in 0 .. 4 * TICRATE)
  /\ [][ /\ (variant = "drift" /\ msg'.a > msg.a) =>
              /\ last' = "key"
              /\ msg'.a = 255 /\ msg'.timeout = 4 * TICRATE
         /\ (variant = "drift" /\ last' # "key") =>
              /\ msg'.timeout \in {msg.timeout, msg.timeout - 1}
              /\ msg'.timeout = msg.timeout => msg'.a = msg.a
              /\ msg'.timeout = msg.timeout - 1 =>
                   msg'.a = AlphaAfterDecrement(msg.a, msg'.timeout) ]_vars

\* the timer has just taken the countdown from 53 to 52 and with it the alpha
\* from 255 to 240
C16_Witness ==
  /\ variant = "drift"
  /\ last = "tick"
  /\ arg.tics > 0
  /\ msg.timeout = 52
  /\ msg.a = 240

\* C17: in the drift program left without further messages, with the loop running
\* and its clock advancing, the countdown of a message reaches 0; once 0 it stays
\* 0 (it does not wrap to 255); and a frame shows the message exactly when the
\* countdown is not 0 and the text is set, so no frame after the expiry shows it.
C17_MessageExpires ==
  /\ (variant = "drift" /\ msg.timeout > 0) ~> (msg.timeout = 0)
  /\ [][(variant = "drift" /\ msg.timeout = 0 /\ last' # "key") => msg'.timeout = 0]_vars
  /\ []((variant = "drift" /\ last = "draw" /\ frames > 0) =>
          (screen.msg_drawn <=> (msg.timeout # 0 /\ msg.text # <<>>)))

\* the timer has just taken to 0 the countdown of a message that the frame before
\* still showed
C17_Witness ==
  /\ variant = "drift"
  /\ last = "tick"
  /\ arg.tics > 0
  /\ msg.text # <<>>
  /\ msg.timeout = 0
  /\ screen.msg_drawn

---------------------------------------------------------------------------
(* Simulation steps, resizes and frames *)

\* C18 as stated: in the drift program the simulation steps of a loop iteration
\* are as many as the logic tics I_Ticker has found elapsed at the start of that
\* iteration (arg.tics).  The loop calls R_UpdateStars once per iteration, so
\* after that call the tics elapsed have to be one.
C18_StepsEqualElapsedTics ==
  (variant = "drift" /\ last = "update") => arg.tics = 1

\* position and brightness of star i of the array arr
Placed(arr, i) == <<StarAt(arr, i).x, StarAt(arr, i).y, StarAt(arr, i).brightness>>

\* C19: in the SDL programs a resize is handled in the event-poll phase, before
\* the simulation step and the draw of the iteration; for a size w > 0, h > 0 it
\* gives every star below NUM_STARS the position and brightness the initializer
\* gives a star of an empty array for the new bounds, whatever the star had before;
\* for w <= 0 or h <= 0 it leaves the star field as it is, and so does every
\* simulation step taken while the size is not positive.
C19_ResizeReinitializes ==
  [][ /\ (variant \in SDLVariants /\ last' = "resize") =>
           /\ pc = "poll" /\ pc' = "poll" /\ frames' = frames
           /\ IF render_w' > 0 /\ render_h' > 0
                THEN \E fresh \in { R_InitStars(variant, cfg, m_rand_seed, <<>>, cfg.NUM_STARS,
                                                render_w', render_h').arr } :
                       \A i \in 0 .. cfg.NUM_STARS - 1 :
                         /\ Placed(stars', i) = Placed(fresh, i)
                         /\ 0 <= StarAt(stars', i).x
                         /\ StarAt(stars', i).x < render_w' * XUnit(variant)
                         /\ 0 <= StarAt(stars', i).y /\ StarAt(stars', i).y < render_h'
                         /\ At(age', i) = 0
                ELSE stars' = stars
      /\ (variant \in SDLVariants /\ last' = "update" /\ (render_w <= 0 \/ render_h <= 0)) =>
           stars' = stars ]_vars

\* an SDL program whose stars had been through a simulation step has handled a
\* resize to a positive size
C19_Witness ==
  /\ variant \in SDLVariants
  /\ last = "resize"
  /\ frames >= 1
  /\ render_w > 0 /\ render_h > 0
  /\ cfg.NUM_STARS >= 1
  /\ \A i \in 0 .. cfg.NUM_STARS - 1 : At(age, i) = 0

\* C20: in the second GDI program (persistent surface, draw then update) a frame
\* paints black every star whose brightness is at most BRIGHTNESS_STEP, and the
\* simulation step respawns or moves only stars that the frame before it has
\* painted black: screen.lit, the stars whose place still carries their colour,
\* holds none of them, so no respawn leaves a lit pixel behind.
C20_ErasedBeforeRespawn ==
  /\ []((variant = "gdi2" /\ last = "draw") =>
          \A i \in 0 .. cfg.NUM_STARS - 1 :
            StarAt(stars, i).brightness <= cfg.BRIGHTNESS_STEP => i \notin screen.lit)
  /\ [][ (variant = "gdi2" /\ last' = "update" /\ render_w > 0 /\ render_h > 0) =>
           \A i \in 0 .. cfg.NUM_STARS - 1 :
             (\/ At(age', i) = 0
              \/ StarAt(stars', i).x # StarAt(stars, i).x
              \/ StarAt(stars', i).y # StarAt(stars, i).y) => i \notin screen.lit ]_vars

\* the second simulation step of the second GDI program has respawned a star that
\* outlived the first one: with BRIGHTNESS_STEP = 128 the first frame showed it lit
\* (brightness above 128), the second painted it black
C20_Witness ==
  /\ variant = "gdi2"
  /\ last = "update"
  /\ frames = 2
  /\ cfg.BRIGHTNESS_STEP = 128
  /\ \E i \in 0 .. cfg.NUM_STARS - 1 : At(age, i) = 0 /\ i \notin screen.lit

---------------------------------------------------------------------------
(* The drifting stars *)

\* brightness of a star with brightness b after the fade of one step by s
Faded(b, s) == IF b > 0 THEN (IF b - s < 0 THEN 0 ELSE b - s) ELSE b

\* C21: in the drift program a simulation step with positive bounds respawns star
\* i exactly when, moved and faded, it has brightness 0, or STAR_SPEED > 0 and
\* x > width, or STAR_SPEED < 0 and x < 0.  A star that left on the right is put
\* on x = 0, one that left on the left on x = width, one that only faded out on
\* a random x of [0, width); a star that is not respawned keeps the moved x and
\* the faded brightness, so with STAR_SPEED = 0 its x does not change.
C21_DriftRespawn ==
  [][ (variant = "drift" /\ last' = "update" /\ render_w > 0 /\ render_h > 0) =>
        \A i \in 0 .. cfg.NUM_STARS - 1 :
          LET st == StarAt(stars, i)
              new == StarAt(stars', i)
              width == render_w * XUnit(variant)
              x1 == st.x + cfg.STAR_SPEED * st.speed
              b1 == Faded(st.brightness, cfg.BRIGHTNESS_STEP)
              right == cfg.STAR_SPEED > 0 /\ x1 > width
              left == cfg.STAR_SPEED < 0 /\ x1 < 0
          IN /\ (At(age', i) = 0) <=> (b1 = 0 \/ right \/ left)
             /\ IF b1 = 0 \/ right \/ left
                  THEN /\ right => new.x = 0
                       /\ left => new.x = width
                       /\ (~right /\ ~left) =>
                            /\ 0 <= new.x /\ new.x < width
                            /\ new.x % XUnit(variant) = 0
                       /\ new.brightness \in 128 .. 255
                  ELSE /\ new.x = x1
                       /\ new.brightness = b1
                       /\ cfg.STAR_SPEED = 0 => new.x = st.x ]_vars

\* a simulation step of the drift program has put a star that left the bounds on
\* the left on x = width, where no random position lies
C21_Witness ==
  /\ variant = "drift"
  /\ AfterStep
  /\ cfg.STAR_SPEED < 0
  /\ \E i \in Active : At(age, i) = 0 /\ stars[i].x = render_w * XUnit(variant)

---------------------------------------------------------------------------
(* Exit status *)

\* C22 as stated: in every program a failed initialization of the window or the
\* graphics ends the process with status 1 before any loop iteration, a normal
\* quit ends it with status 0, and no other status occurs.
C22_InitFailureExitsNonzero ==
  /\ last = "initfail" => (pc = "exit" /\ frames = 0 /\ exit_code = 1)
  /\ (pc = "exit" /\ last # "initfail") => exit_code = 0
  /\ exit_code \in {-1, 0, 1}

---------------------------------------------------------------------------
(* The FPS display of the drift program *)

\* C23 as stated: in the drift program a frame presented while the FPS display is
\* on shows the number of frames presented during the last second that was
\* completed (arg.fps.fps), also in the first frames after F5 has switched the
\* display on; a frame presented while it is off shows no number.
C23_FpsShowsLastSecond ==
  (variant = "drift" /\ last = "draw" /\ frames > 0) =>
    IF cfg.SHOW_FPS # 0
      THEN screen.fps_shown = arg.fps.fps
      ELSE screen.fps_shown = -1

---------------------------------------------------------------------------
(* The stars in use *)

\* the indices either array holds a written star at
Held == (DOMAIN stars) \cup (DOMAIN stars')

\* C24: in the programs that check their configuration (GDI v2 and the two SDL
\* programs) a simulation step changes no star at an index >= NUM_STARS and a
\* frame paints exactly the stars 0 .. NUM_STARS-1, changing none; with
\* NUM_STARS = 0 a step changes no star and a frame paints none (the GDI
\* surface keeps no lit star, the SDL frame is the cleared one).
C24_OnlyActiveStars ==
  [][ /\ (variant # "gdi1" /\ last' = "update") =>
           /\ \A i \in Held : i >= cfg.NUM_STARS => StarAt(stars', i) = StarAt(stars, i)
           /\ cfg.NUM_STARS = 0 => \A i \in Held : StarAt(stars', i) = StarAt(stars, i)
           /\ screen'.drawn = screen.drawn
      /\ (variant # "gdi1" /\ last' = "draw") =>
           /\ screen'.drawn = 0 .. cfg.NUM_STARS - 1
           /\ stars' = stars
           /\ cfg.NUM_STARS = 0 => (screen'.drawn = {} /\ screen'.lit = {}) ]_vars

\* the drift program has stepped and drawn after DOWN took a star out of use: the
\* star keeps what it had and is not in the frame, the ones in use are
C24_Witness ==
  /\ variant = "drift" /\ last = "draw" /\ frames > 0
  /\ render_w > 0 /\ render_h > 0
  /\ cfg.NUM_STARS > 0
  /\ screen.drawn = 0 .. cfg.NUM_STARS - 1
  /\ \E i \in DOMAIN stars :
       i >= cfg.NUM_STARS /\ stars[i] # ZeroStar /\ i \notin screen.drawn /\ At(age, i) > 0

\* C25 as stated: in every program, whatever stars.ini holds and whatever events
\* arrive, the count the loops of the initializer, the step and the painter run
\* to stays within the star array (300 stars in GDI v1, MAXSTARS in the others), so
\* no star is accessed beyond the array.
C25_CountWithinCapacity ==
  /\ oob = FALSE
  /\ pc \in ({"poll", "update", "draw"} \cup UsePoints) => cfg.NUM_STARS <= Capacity(variant)

---------------------------------------------------------------------------
(* The hotkeys of the drift program *)

\* the parameters the hotkeys adjust
Adjustable == {"NUM_STARS", "STAR_SIZE", "STAR_SPEED", "SHOW_FPS", "COLORED_STARS"}

\* the ranges CFG_Check and the key handlers keep them in
HotkeyRanges(c) ==
  /\ c.NUM_STARS \in 0 .. MAXSTARS
  /\ c.STAR_SIZE \in 1 .. 16
  /\ c.STAR_SPEED \in -10 .. 10
  /\ c.SHOW_FPS \in {0, 1}
  /\ c.COLORED_STARS \in {0, 1}

\* the message the handler sets after it has given the parameter f the value v
Announcement(f, v) ==
  CASE f = "SHOW_FPS"      -> << (IF v # 0 THEN "FPS counter ON" ELSE "FPS counter OFF"), 0 >>
    [] f = "COLORED_STARS" -> << (IF v # 0 THEN "Colored stars" ELSE "Grayscale stars"), 0 >>
    [] f = "STAR_SIZE"     -> << "Star size: %d", v >>
    [] f = "NUM_STARS"     -> << "Stars: %d", v >>
    [] f = "STAR_SPEED"    -> << "Speed: %d", v >>

\* C26: in the drift program the adjustable parameters are within their ranges
\* from the top of the first loop iteration on, whatever keys are pressed.  A
\* key-down event either leaves every adjustable parameter and the message as
\* they are (as a key does whose parameter is at the end of its range in the
\* key's direction), or changes exactly one adjustable parameter, by exactly 1,
\* and sets the message that announces its new value.
C26_HotkeysKeepRanges ==
  /\ [](variant = "drift" /\ InMainLoop => HotkeyRanges(cfg))
  /\ [][ (variant = "drift" /\ last' = "key" /\ nev' = nev + 1) =>
           \/ /\ msg' = msg
              /\ \A f \in Adjustable : cfg'[f] = cfg[f]
           \/ \E f \in Adjustable :
                /\ cfg' = [cfg EXCEPT ![f] = cfg'[f]]
                /\ cfg'[f] - cfg[f] \in {-1, 1}
                /\ msg' = MSG_SetMessage(Announcement(f, cfg'[f]), 255)
                /\ msg' # msg ]_vars

\* two keys have come to the program started with every parameter at its upper
\* end: DOWN has taken a star away and said so, the other key (PERIOD, RIGHT, ...)
\* has changed nothing
C26_Witness ==
  /\ variant = "drift" /\ last = "key" /\ nev = 2
  /\ cfg.NUM_STARS = MAXSTARS - 1 /\ cfg.STAR_SIZE = 16 /\ cfg.STAR_SPEED = 10
  /\ msg = MSG_SetMessage(<<"Stars: %d", MAXSTARS - 1>>, 255)

---------------------------------------------------------------------------
(* Stars taken out of use and back *)

\* C27 as stated: in the drift program, started with a positive render size
\* and given resizes to positive sizes and UP and DOWN keys in any order, every
\* star a frame draws lies at a height 0 <= y < render_h for the render_h of
\* that frame, also a star that DOWN took out of use, that a shrinking resize
\* passed over and that UP brought back.
C27_DrawnStarsInsideFrame ==
  (variant = "drift" /\ last = "draw" /\ frames > 0) =>
    \A i \in screen.drawn : StarAt(stars, i).y >= 0 /\ StarAt(stars, i).y < render_h

---------------------------------------------------------------------------
(* The overlay message and the tic timer *)

\* C28 as stated: in the drift program a frame that draws the message (text
\* set, countdown not 0) draws it with an alpha above 0: the message does not
\* turn fully transparent before its countdown has run out.
C28_DrawnMessageIsVisible ==
  (variant = "drift" /\ last = "draw" /\ frames > 0 /\ screen.msg_drawn) => msg.a > 0

\* C29: in the drift program last_tic_time is gametic * TIC_DURATION_MS in every
\* state, TIC_DURATION_MS being 1000 / 35 = 28; right after a call of I_Ticker
\* less than one tic is left over, 0 <= now - last_tic_time < TIC_DURATION_MS;
\* gametic never decreases.  The clock of the model never runs backwards.
C29_TicTimerInStep ==
  /\ [](variant = "drift" =>
          /\ TIC_DURATION_MS = 28
          /\ clock.last_tic_time = clock.gametic * TIC_DURATION_MS)
  /\ [](variant = "drift" /\ last = "tick" =>
          /\ clock.now - clock.last_tic_time >= 0
          /\ clock.now - clock.last_tic_time < TIC_DURATION_MS)
  /\ [][ variant = "drift" => (clock'.gametic >= clock.gametic /\ clock'.now >= clock.now) ]_vars

\* I_Ticker has just counted two tics at once and has left a remainder
C29_Witness ==
  /\ variant = "drift" /\ last = "tick"
  /\ arg.tics = 2
  /\ clock.now - clock.last_tic_time > 0
  /\ clock.gametic > 2

---------------------------------------------------------------------------
(* The painter of the second GDI program and the stars just respawned *)

\* C30 as stated: in GDI v2, for every BRIGHTNESS_STEP in 1 .. 255 and a window
\* with positive sides, the frame that follows a respawn paints the star lit,
\* at brightness 255, and does not erase it: every star is shown in at least one
\* frame between two respawns.
C30_RespawnedStarIsShown ==
  (variant = "gdi2" /\ last = "draw" /\ frames > 0 /\ render_w > 0 /\ render_h > 0
     /\ cfg.BRIGHTNESS_STEP \in 1 .. 255) =>
    \A i \in Active :
      At(age, i) = 0 =>
        /\ StarAt(stars, i).brightness = 255
        /\ StarAt(stars, i).brightness > cfg.BRIGHTNESS_STEP
        /\ \/ i \in screen.lit
           \/ <<StarAt(stars, i).r, StarAt(stars, i).g, StarAt(stars, i).b>> = <<0, 0, 0>>

=============================================================================
